---- MODULE Spec2Model ----
(***************************************************************************)
(* Verification model of the fintech research bot's query orchestration    *)
(* core: TTL cache, per-user rate limiter, search fan-out, critic loop,    *)
(* world-model persistence and the Process pipeline of the query service.  *)
(*                                                                         *)
(* Time is a discrete clock `now`; one tick stands for the smallest        *)
(* duration the components distinguish.                                    *)
(***************************************************************************)
EXTENDS Integers, Sequences, FiniteSets, TLC

VARIABLES
    now,        \* wall clock (time.Now()), in ticks
    items,      \* Cache.items: key -> [value, expiresAt]
    lastSet,    \* history: per key, the latest Set not followed by Delete
    lastGet,    \* history: the outcome of the latest Cache.Get, with the Set it followed
    limit,      \* Limiter.limit
    requests,   \* Limiter.requests: user -> timestamps
    mu,         \* Limiter.mu: "free" or the goroutine holding it
    lpc,        \* position of every goroutine calling Limiter.Allow
    larg,       \* the userID each goroutine passed to Allow
    admitted,   \* history: user -> every timestamp at which Allow returned true
    lastAllow,  \* history: the outcome of the latest Allow
    scope,      \* which component harness is running (fixed by Init)
    facts,      \* WorldModelRepository: the stored facts [id, user, content]
    sessions,   \* WorldModelRepository: the ids of the stored research sessions
    sessionFacts, \* WorldModelRepository: session id -> attached fact ids
    nextID,     \* the next fresh identifier (uuid.New())
    exec,       \* position and locals of every running ExtractAndStore
    wmDone,     \* history: the ExtractAndStore calls that have returned
    entities,   \* WorldModelRepository: the stored entities
    sessionEntities, \* WorldModelRepository: the (session id, entity id) links
    lastMerge,  \* history: the latest UpdateEntity made by saveEntity
    fan,        \* searchWithCache: its arguments, sub-query goroutines, resultsChan
    out,        \* the list the latest searchWithCache call returned
    deps,       \* the QueryServiceDeps handed to NewQueryService
    cfg,        \* queryService: criticConfig and the optional collaborators
    p,          \* queryService.Process: position, request, contexts, locals, result
    bg,         \* the background ExtractAndStore goroutine started by Process
    hist,       \* history: calls made by Process and the critic loop
    agents,     \* Coordinator.agents: each registered agent's CanHandle score
    co,         \* Coordinator.Process: position, locals, result
    rv,         \* CriticService.Review: the LLM output and what Review returned
    sw,         \* the sweep goroutines of the cache and of the limiter, Cache.Stop
    keys,       \* two calls of queryService.cacheKey: arguments and results
    rep,        \* history: what a first Process call searched and cached, for a repeat
    san,        \* QueryRequest.Sanitize: a text and what Sanitize made of it
    call,       \* one call of an HTTP client (LLM or search): attempts, waits, result
    store       \* SourceRepository: the stored sources, and the running source operations

cacheVars   == <<items, lastSet, lastGet>>
limiterVars == <<limit, requests, mu, lpc, larg, admitted, lastAllow>>
wmVars      == <<facts, sessions, sessionFacts, nextID, exec, wmDone, entities,
                 sessionEntities, lastMerge>>
searchVars  == <<fan, out>>
procVars    == <<deps, cfg, p, bg, hist>>
coordVars   == <<agents, co>>
criticVars  == <<rv>>
sweepVars   == <<sw>>
keyVars     == <<keys>>
repVars     == <<rep>>
sanVars     == <<san>>
callVars    == <<call>>
storeVars   == <<store>>
vars        == <<now, scope, cacheVars, limiterVars, wmVars, searchVars, procVars,
                 coordVars, criticVars, sweepVars, keyVars, repVars, sanVars, callVars,
                 storeVars>>

\* the variables outside each component
notCache    == <<scope, limiterVars, wmVars, searchVars, procVars, coordVars, criticVars, sweepVars, keyVars, repVars,
                 sanVars, callVars, storeVars>>
notLimiter  == <<scope, cacheVars, wmVars, searchVars, procVars, coordVars, criticVars, sweepVars, keyVars, repVars,
                 sanVars, callVars, storeVars>>
notWM       == <<scope, cacheVars, limiterVars, searchVars, procVars, coordVars, criticVars, sweepVars, keyVars, repVars,
                 sanVars, callVars, storeVars>>
notSearch   == <<scope, limiterVars, wmVars, procVars, coordVars, criticVars, sweepVars, keyVars,
                 sanVars, callVars, storeVars>>
notProc     == <<now, scope, cacheVars, limiterVars, wmVars, searchVars, coordVars, criticVars, sweepVars, keyVars, repVars,
                 sanVars, callVars, storeVars>>
notCoord    == <<now, scope, cacheVars, limiterVars, wmVars, searchVars, procVars, criticVars,
                 sweepVars, keyVars, repVars,
                 sanVars, callVars, storeVars>>
notCritic   == <<now, scope, cacheVars, limiterVars, wmVars, searchVars, procVars, coordVars,
                 sweepVars, keyVars, repVars,
                 sanVars, callVars, storeVars>>
notSweep    == <<now, scope, cacheVars, limiterVars, wmVars, searchVars, procVars, coordVars,
                 criticVars, keyVars, repVars,
                 sanVars, callVars, storeVars>>
notKey      == <<now, scope, cacheVars, limiterVars, wmVars, searchVars, procVars, coordVars,
                 criticVars, sweepVars, repVars,
                 sanVars, callVars, storeVars>>
notSan      == <<now, scope, cacheVars, limiterVars, wmVars, searchVars, procVars, coordVars,
                 criticVars, sweepVars, keyVars, repVars, callVars, storeVars>>
notCall     == <<scope, cacheVars, limiterVars, wmVars, searchVars, procVars, coordVars,
                 criticVars, sweepVars, keyVars, repVars, sanVars, storeVars>>
notStore    == <<now, scope, cacheVars, limiterVars, wmVars, searchVars, procVars, coordVars,
                 criticVars, sweepVars, keyVars, repVars, sanVars, callVars>>

(***************************************************************************)
(* Bounds                                                                  *)
(***************************************************************************)
MaxTime == 4        \* the clock stops ticking here
MaxTTL  == 2        \* largest ttl handed to Cache.Set
MaxRPM  == 2        \* largest configured RequestsPerMinute

Times == 0..MaxTime

(***************************************************************************)
(* Search results (search.SearchResult): a URL and a score.  Scores are    *)
(* floats in [0,1] in the source; only their order matters, so they are    *)
(* modelled as integers.                                                   *)
(***************************************************************************)
URLs   == {"u1", "u2"}
Scores == {1, 2}
Result(u, s) == [URL |-> u, Score |-> s]

(***************************************************************************)
(* TTL cache                                                               *)
(***************************************************************************)
CacheKeys   == {"k1", "k2"}
CacheValues == {<<>>, <<Result("u1", 1)>>}

NoSet == [set |-> FALSE, value |-> <<>>, expiresAt |-> 0]
NoGet == [called |-> FALSE, key |-> "k1", hit |-> FALSE, value |-> <<>>, at |-> 0,
          last |-> NoSet]

\* time.Now().After(it.expiresAt)
Expired(it, t) == t > it.expiresAt

\* goroutines calling Cache.Stop
Stoppers == {"s1", "s2"}
MaxStops == 3       \* Stop calls made in one behaviour

\* memory.New / ratelimit.New have returned: both sweep goroutines run, the
\* cache is not stopped, stopChan is open, nobody holds Cache.mu
IdleSweep == [sweeper |-> "running", stopped |-> FALSE, stopChan |-> "open",
              ctx |-> "background", ctxDone |-> FALSE, panicked |-> FALSE,
              mu |-> "free", spc |-> [g \in Stoppers |-> "idle"], calls |-> 0,
              limSweeper |-> "running", released |-> FALSE]

\* Mutant: the expiry comparison of Get is dropped.
CacheLookupNoExpiry(its, key, t) ==
    IF key \notin DOMAIN its
    THEN [hit |-> FALSE, value |-> <<>>]
    ELSE [hit |-> TRUE, value |-> its[key].value]

\* Cache.Get: (value, ok)
CacheLookup(its, key, t) ==
    IF key \notin DOMAIN its \/ Expired(its[key], t)
    THEN [hit |-> FALSE, value |-> <<>>]
    ELSE [hit |-> TRUE, value |-> its[key].value]

\* Mutant: the entry is not written.
CacheStoreDropped(its, key, value, ttl, t) == its

\* c.items[key] = item{value, time.Now().Add(ttl)}
CacheStore(its, key, value, ttl, t) ==
    [k \in DOMAIN its \cup {key} |->
        IF k = key THEN [value |-> value, expiresAt |-> t + ttl] ELSE its[k]]

\* delete(c.items, key)
CacheRemove(its, key) == [k \in DOMAIN its \ {key} |-> its[k]]

\* Cache.removeExpired
CacheSweep(its, t) ==
    [k \in {x \in DOMAIN its : ~Expired(its[x], t)} |-> its[k]]

CacheGet(key) ==
    /\ sw.mu = "free"
    /\ lastGet' = [called |-> TRUE, key |-> key, at |-> now, last |-> lastSet[key],
                   hit |-> CacheLookup(items, key, now).hit,
                   value |-> CacheLookup(items, key, now).value]
    /\ UNCHANGED <<now, items, lastSet, notCache>>

CacheSet(key, value, ttl) ==
    /\ sw.mu = "free"
    /\ items' = CacheStore(items, key, value, ttl, now)
    /\ lastSet' = [lastSet EXCEPT ![key] =
                      [set |-> TRUE, value |-> value, expiresAt |-> now + ttl]]
    /\ UNCHANGED <<now, lastGet, notCache>>

CacheDelete(key) ==
    /\ sw.mu = "free"
    /\ items' = CacheRemove(items, key)
    /\ lastSet' = [lastSet EXCEPT ![key] = NoSet]
    /\ UNCHANGED <<now, lastGet, notCache>>

\* one firing of the sweep ticker in Cache.cleanup: case <-ticker.C
CacheCleanupTick ==
    /\ sw.sweeper = "running"
    /\ sw.mu = "free"
    /\ items' = CacheSweep(items, now)
    /\ UNCHANGED <<now, lastSet, lastGet, notCache>>

\* a goroutine calls Stop and reaches c.mu.Lock()
CacheStopCall(g) ==
    /\ sw.spc[g] = "idle"
    /\ sw.calls < MaxStops
    /\ sw' = [sw EXCEPT !.spc[g] = "lock", !.calls = @ + 1]
    /\ UNCHANGED notSweep

\* c.mu.Lock() returns in Stop
CacheStopLock(g) ==
    /\ sw.spc[g] = "lock"
    /\ sw.mu = "free"
    /\ sw' = [sw EXCEPT !.spc[g] = "held", !.mu = g]
    /\ UNCHANGED notSweep

\* Mutant: Stop closes the channel without looking at c.stopped.
AlreadyStoppedIgnored == FALSE

\* if !c.stopped
AlreadyStopped == sw.stopped

\* the body of Stop under the lock, up to the deferred Unlock; closing a
\* closed channel panics
CacheStopBody(g) ==
    /\ sw.spc[g] = "held"
    /\ sw.mu = g
    /\ IF AlreadyStopped
       THEN sw' = [sw EXCEPT !.spc[g] = "idle", !.mu = "free"]
       ELSE sw' = [sw EXCEPT !.spc[g] = "idle", !.mu = "free", !.stopped = TRUE,
                             !.stopChan = "closed",
                             !.panicked = @ \/ (sw.stopChan = "closed")]
    /\ UNCHANGED notSweep

\* the context handed to NewWithContext is cancelled
CacheCtxCancel ==
    /\ sw.ctx = "cancellable"
    /\ ~sw.ctxDone
    /\ sw' = [sw EXCEPT !.ctxDone = TRUE]
    /\ UNCHANGED notSweep

\* Cache.cleanup: case <-ctx.Done() or case <-c.stopChan: return
CacheSweepExit ==
    /\ sw.sweeper = "running"
    /\ sw.ctxDone \/ sw.stopChan = "closed"
    /\ sw' = [sw EXCEPT !.sweeper = "exited"]
    /\ UNCHANGED notSweep

\* the wall clock advances
Tick ==
    /\ now < MaxTime
    /\ now' = now + 1
    /\ UNCHANGED <<cacheVars, notCache>>

(***************************************************************************)
(* Rate limiter                                                            *)
(***************************************************************************)
Users        == {1, 2}
Goroutines   == {"g1", "g2"}
Window       == 2       \* Limiter.window (time.Minute), in ticks
DefaultLimit == 10

NoAllow == [called |-> FALSE, user |-> 1, ok |-> FALSE]

\* ratelimit.New: the limit taken from the configuration
NewLimit(rpm) == IF rpm <= 0 THEN DefaultLimit ELSE rpm

\* the timestamps of ts that are After(cutoff), in order
RECURSIVE Fresh(_, _)
Fresh(ts, cutoff) ==
    IF ts = <<>> THEN <<>>
    ELSE IF Head(ts) > cutoff
         THEN <<Head(ts)>> \o Fresh(Tail(ts), cutoff)
         ELSE Fresh(Tail(ts), cutoff)

\* Mutant: the admission test is off by one.
AtLimitOffByOne(fresh) == Len(fresh) > limit

\* len(fresh) >= l.limit
AtLimit(fresh) == Len(fresh) >= limit

\* Mutant: a denied call is recorded as well.
OnDeniedRecords(fresh, t) == Append(fresh, t)

\* l.requests[userID] = fresh; return false
OnDenied(fresh, t) == fresh

\* a goroutine calls Allow(userID) and reaches l.mu.Lock()
AllowCall(g, u) ==
    /\ lpc[g] = "idle"
    /\ lpc' = [lpc EXCEPT ![g] = "lock"]
    /\ larg' = [larg EXCEPT ![g] = u]
    /\ UNCHANGED <<now, notLimiter, limit, requests, mu, admitted, lastAllow>>

\* l.mu.Lock() returns
AllowLock(g) ==
    /\ lpc[g] = "lock"
    /\ mu = "free"
    /\ mu' = g
    /\ lpc' = [lpc EXCEPT ![g] = "held"]
    /\ UNCHANGED <<now, notLimiter, limit, requests, larg, admitted, lastAllow>>

\* the body of Allow under the lock, up to the deferred Unlock
AllowBody(g) ==
    /\ lpc[g] = "held"
    /\ mu = g
    /\ LET u     == larg[g]
           fresh == Fresh(requests[u], now - Window)
       IN  IF AtLimit(fresh)
           THEN /\ requests' = [requests EXCEPT ![u] = OnDenied(fresh, now)]
                /\ lastAllow' = [called |-> TRUE, user |-> u, ok |-> FALSE]
                /\ UNCHANGED admitted
           ELSE /\ requests' = [requests EXCEPT ![u] = Append(fresh, now)]
                /\ lastAllow' = [called |-> TRUE, user |-> u, ok |-> TRUE]
                /\ admitted' = [admitted EXCEPT ![u] = Append(@, now)]
    /\ mu' = "free"
    /\ lpc' = [lpc EXCEPT ![g] = "idle"]
    /\ larg' = [larg EXCEPT ![g] = 1]
    /\ UNCHANGED <<now, notLimiter, limit>>

\* one firing of the ticker in Limiter.cleanup (a user left with no fresh
\* timestamp is deleted from the map, which reads back as the empty slice)
LimiterCleanupTick ==
    /\ sw.limSweeper = "running"
    /\ mu = "free"
    /\ requests' = [u \in Users |-> Fresh(requests[u], now - Window)]
    /\ UNCHANGED <<now, notLimiter, limit, mu, lpc, larg, admitted, lastAllow>>

\* the owner of the limiter is done with it and shuts down; Limiter has no
\* method to tell its sweep goroutine
LimiterRelease ==
    /\ ~sw.released
    /\ sw' = [sw EXCEPT !.released = TRUE]
    /\ UNCHANGED notSweep

(***************************************************************************)
(* World model: WorldModelService.ExtractAndStore over a                   *)
(* WorldModelRepository.  Every repository call either succeeds or returns *)
(* an error; FindFactByContent reports an absent fact as ErrNotFound and   *)
(* may also fail for another reason (PostgreSQL implementation).           *)
(***************************************************************************)
Execs        == {"e1", "e2"}
FactContents == {"", "c1", "c2"}
MaxFacts     == 2       \* longest fact list of one extraction
MaxCalls     == 2       \* ExtractAndStore calls in one behaviour

\* strings.TrimSpace(f.Content) == ""
IsBlank(c) == c = ""

SeqsUpTo(S, n) == UNION {[1..k -> S] : k \in 0..n}
FactLists == SeqsUpTo(FactContents, MaxFacts)

\* extractedEntity: name, type and attributes as the LLM gave them
EmptyAttrs   == [k \in {} |-> 0]
AttrMaps     == {[k \in {"a"} |-> 1], [k \in {"a"} |-> 2], [k \in {"b"} |-> 1]}
EntityInputs ==
    {[name |-> "", type |-> "company", attrs |-> EmptyAttrs],
     [name |-> "n1", type |-> "bogus", attrs |-> [k \in {"b"} |-> 1]]}
    \cup {[name |-> "n1", type |-> "company", attrs |-> m] : m \in AttrMaps}
MaxEntities  == 2       \* longest entity list of one extraction
EntityLists  == SeqsUpTo(EntityInputs, MaxEntities)

\* EntityType.IsValid
IsValidType(t) == t \in {"company", "person", "concept", "product", "market"}

IdleExec == [pc |-> "idle", user |-> 1, session |-> 0, todo |-> <<>>,
             cur |-> 0, saved |-> {}, ents |-> <<>>, merged |-> EmptyAttrs,
             seenAt |-> 0]

NoMerge == [called |-> FALSE, before |-> EmptyAttrs, incoming |-> EmptyAttrs,
            after |-> EmptyAttrs, seenBefore |-> 0, seenAfter |-> 0, count |-> 0]

\* the entities GetEntityByName can return for (user, name)
EntitiesWith(u, n) == {x \in entities : x.user = u /\ x.name = n}

\* Mutant: the incoming attributes replace the stored ones.
MergeAttrsReplace(old, inc) == inc

\* for k, v := range e.Attributes { existing.Attributes[k] = v }
MergeAttrs(old, inc) ==
    [k \in DOMAIN old \cup DOMAIN inc |-> IF k \in DOMAIN inc THEN inc[k] ELSE old[k]]

\* the facts FindFactByContent can return for (user, content)
FactsWith(u, c) == {f \in facts : f.user = u /\ f.content = c}

\* MockWorldModelRepository.AddFactToSession / INSERT .. ON CONFLICT DO NOTHING
AddFactToSession(sf, sid, fid) ==
    LET old == IF sid \in DOMAIN sf THEN sf[sid] ELSE <<>>
    IN  [s \in DOMAIN sf \cup {sid} |->
            IF s # sid THEN sf[s]
            ELSE IF \E i \in DOMAIN old : old[i] = fid THEN old
                 ELSE Append(old, fid)]

\* ExtractAndStore returns (with or without an error)
ExecReturn(e, ok) ==
    /\ exec' = [exec EXCEPT ![e] = IdleExec]
    /\ wmDone' = Append(wmDone, [user |-> exec[e].user, session |-> exec[e].session,
                                 ok |-> ok, saved |-> exec[e].saved])

\* ExtractAndStore is called: the session is created (CreateSession)
ExtractStart(e, u, repoOK) ==
    /\ exec[e].pc = "idle"
    /\ Len(wmDone) + Cardinality({x \in Execs : exec[x].pc # "idle"}) < MaxCalls
    /\ scope = "worldseq" => \A x \in Execs : exec[x].pc = "idle"
    /\ IF repoOK
       THEN /\ sessions' = sessions \cup {nextID}
            /\ nextID' = nextID + 1
            /\ exec' = [exec EXCEPT ![e] = [IdleExec EXCEPT !.pc = "llm", !.user = u,
                                                           !.session = nextID]]
            /\ UNCHANGED wmDone
       ELSE /\ exec' = [exec EXCEPT ![e] = IdleExec]
            /\ wmDone' = Append(wmDone, [user |-> u, session |-> 0, ok |-> FALSE,
                                         saved |-> {}])
            /\ UNCHANGED <<sessions, nextID>>
    /\ UNCHANGED <<now, facts, sessionFacts, entities, sessionEntities, lastMerge, notWM>>

\* the extraction LLM call and parseExtractionResponse fail
ExtractLLMFail(e) ==
    /\ exec[e].pc = "llm"
    /\ ExecReturn(e, FALSE)
    /\ UNCHANGED <<now, facts, sessions, sessionFacts, nextID, entities, sessionEntities, lastMerge, notWM>>

\* the extraction LLM call succeeds and parses to the fact list fs and the
\* entity list es
ExtractLLM(e, fs, es) ==
    /\ exec[e].pc = "llm"
    /\ exec' = [exec EXCEPT ![e].pc = "fact", ![e].todo = fs, ![e].ents = es]
    /\ UNCHANGED <<now, facts, sessions, sessionFacts, nextID, wmDone, entities, sessionEntities, lastMerge, notWM>>

\* saveFact, up to the return of FindFactByContent
SaveFactFind(e, repoOK) ==
    /\ exec[e].pc = "fact"
    /\ exec[e].todo # <<>>
    /\ LET c == Head(exec[e].todo) IN
       IF IsBlank(c)
       THEN exec' = [exec EXCEPT ![e].todo = Tail(@)]
       ELSE IF repoOK /\ FactsWith(exec[e].user, c) # {}
            THEN \E f \in FactsWith(exec[e].user, c) :
                    exec' = [exec EXCEPT ![e].pc = "attach", ![e].cur = f.id]
            ELSE exec' = [exec EXCEPT ![e].pc = "create"]
    /\ UNCHANGED <<now, facts, sessions, sessionFacts, nextID, wmDone, entities, sessionEntities, lastMerge, notWM>>

\* saveFact: CreateFact with a fresh id
SaveFactCreate(e, repoOK) ==
    /\ exec[e].pc = "create"
    /\ IF repoOK
       THEN /\ facts' = facts \cup {[id |-> nextID, user |-> exec[e].user,
                                    content |-> Head(exec[e].todo)]}
            /\ nextID' = nextID + 1
            /\ exec' = [exec EXCEPT ![e].pc = "attach", ![e].cur = nextID]
       ELSE /\ exec' = [exec EXCEPT ![e].pc = "fact", ![e].todo = Tail(@)]
            /\ UNCHANGED <<facts, nextID>>
    /\ UNCHANGED <<now, sessions, sessionFacts, wmDone, entities, sessionEntities, lastMerge, notWM>>

\* saveFact: AddFactToSession, whose result saveFact returns
SaveFactAttach(e, repoOK) ==
    /\ exec[e].pc = "attach"
    /\ IF repoOK
       THEN /\ sessionFacts' = AddFactToSession(sessionFacts, exec[e].session, exec[e].cur)
            /\ exec' = [exec EXCEPT ![e].pc = "fact", ![e].todo = Tail(@), ![e].cur = 0,
                                    ![e].saved = @ \cup {Head(exec[e].todo)}]
       ELSE /\ exec' = [exec EXCEPT ![e].pc = "fact", ![e].todo = Tail(@), ![e].cur = 0]
            /\ UNCHANGED sessionFacts
    /\ UNCHANGED <<now, facts, sessions, nextID, wmDone, entities, sessionEntities, lastMerge, notWM>>

\* saveEntity, up to the return of GetEntityByName: a blank name or an
\* invalid type is skipped; a found entity is merged in memory, everything
\* else (ErrNotFound or another error) goes on to CreateEntity
SaveEntityFind(e, repoOK) ==
    /\ exec[e].pc = "fact"
    /\ exec[e].todo = <<>>
    /\ exec[e].ents # <<>>
    /\ LET x == Head(exec[e].ents) IN
       IF IsBlank(x.name) \/ ~IsValidType(x.type)
       THEN exec' = [exec EXCEPT ![e].ents = Tail(@)]
       ELSE IF repoOK /\ EntitiesWith(exec[e].user, x.name) # {}
            THEN \E old \in EntitiesWith(exec[e].user, x.name) :
                    exec' = [exec EXCEPT ![e].pc = "entUpdate", ![e].cur = old.id,
                                         ![e].merged = MergeAttrs(old.attrs, x.attrs),
                                         ![e].seenAt = now]
            ELSE exec' = [exec EXCEPT ![e].pc = "entCreate"]
    /\ UNCHANGED <<now, facts, sessions, sessionFacts, nextID, wmDone, entities,
                   sessionEntities, lastMerge, notWM>>

\* saveEntity: UpdateEntity writes the merged entity over the stored row
\* and its attribute rows
SaveEntityUpdate(e, repoOK) ==
    /\ exec[e].pc = "entUpdate"
    /\ IF repoOK
       THEN LET old == CHOOSE x \in entities : x.id = exec[e].cur
                new == [old EXCEPT !.attrs = exec[e].merged, !.lastSeenAt = exec[e].seenAt]
            IN  /\ entities' = (entities \ {old}) \cup {new}
                /\ lastMerge' = [called |-> TRUE, before |-> old.attrs,
                                 incoming |-> Head(exec[e].ents).attrs,
                                 after |-> new.attrs, seenBefore |-> old.lastSeenAt,
                                 seenAfter |-> new.lastSeenAt,
                                 count |-> Cardinality(EntitiesWith(old.user, old.name))]
                /\ exec' = [exec EXCEPT ![e].pc = "entAttach"]
       ELSE /\ exec' = [exec EXCEPT ![e].pc = "fact", ![e].ents = Tail(@), ![e].cur = 0,
                                    ![e].merged = EmptyAttrs, ![e].seenAt = 0]
            /\ UNCHANGED <<entities, lastMerge>>
    /\ UNCHANGED <<now, facts, sessions, sessionFacts, nextID, wmDone, sessionEntities, notWM>>

\* saveEntity: CreateEntity with a fresh id; UNIQUE(user_id, name) rejects a
\* second entity of the name
SaveEntityCreate(e, repoOK) ==
    /\ exec[e].pc = "entCreate"
    /\ LET x == Head(exec[e].ents) IN
       IF repoOK /\ EntitiesWith(exec[e].user, x.name) = {}
       THEN /\ entities' = entities \cup {[id |-> nextID, user |-> exec[e].user,
                                           name |-> x.name, attrs |-> x.attrs,
                                           firstSeenAt |-> now, lastSeenAt |-> now]}
            /\ nextID' = nextID + 1
            /\ exec' = [exec EXCEPT ![e].pc = "entAttach", ![e].cur = nextID]
       ELSE /\ exec' = [exec EXCEPT ![e].pc = "fact", ![e].ents = Tail(@)]
            /\ UNCHANGED <<entities, nextID>>
    /\ UNCHANGED <<now, facts, sessions, sessionFacts, wmDone, sessionEntities,
                   lastMerge, notWM>>

\* saveEntity: AddEntityToSession (ON CONFLICT DO NOTHING), whose result
\* saveEntity returns
SaveEntityAttach(e, repoOK) ==
    /\ exec[e].pc = "entAttach"
    /\ sessionEntities' = IF repoOK
                          THEN sessionEntities \cup {<<exec[e].session, exec[e].cur>>}
                          ELSE sessionEntities
    /\ exec' = [exec EXCEPT ![e].pc = "fact", ![e].ents = Tail(@), ![e].cur = 0,
                            ![e].merged = EmptyAttrs, ![e].seenAt = 0]
    /\ UNCHANGED <<now, facts, sessions, sessionFacts, nextID, wmDone, entities,
                   lastMerge, notWM>>

\* every extracted fact and entity has been handled: ExtractAndStore
\* returns nil
ExtractDone(e) ==
    /\ exec[e].pc = "fact"
    /\ exec[e].todo = <<>>
    /\ exec[e].ents = <<>>
    /\ ExecReturn(e, TRUE)
    /\ UNCHANGED <<now, facts, sessions, sessionFacts, nextID, entities, sessionEntities, lastMerge, notWM>>

(***************************************************************************)
(* Search fan-out: queryService.searchWithCache and searchSingleQuery.     *)
(* One goroutine per query looks the query up in the cache, calls the      *)
(* provider on a miss, and sends its list on resultsChan; after g.Wait()   *)
(* the lists are merged in channel order.                                  *)
(***************************************************************************)
\* texts are sequences of characters
Queries       == {<<"q", "1">>, <<"q", "2">>}
Domains       == <<<<"d", "1">>>>
MaxQueries    == 2      \* most queries handed to one fan-out
MaxListLen    == 2      \* longest list one provider call returns
MaxResultsArg == 2      \* largest maxResults of a request
CacheTTL      == 1      \* QueryConfig.CacheTTL (time.Hour), in ticks

AllResults    == {Result(u, sc) : u \in URLs, sc \in Scores}
\* what the provider can answer: any short list in the fan-out harness; in
\* the orchestrator harnesses nothing or one fixed two-result list.  The
\* LLM proposes a single query text in the orchestrator harness and either
\* query text where a request is repeated
ProviderLists ==
    IF scope = "search" THEN SeqsUpTo(AllResults, MaxListLen)
    ELSE {<<>>, <<Result("u1", 1), Result("u2", 2)>>}
ProposedQueries == IF scope \in {"search", "repeat"} THEN Queries ELSE {<<"q", "1">>}

IdleFan == [active |-> FALSE, queries |-> <<>>, maxResults |-> 0,
            sub |-> <<>>, pending |-> <<>>, chan |-> <<>>, failed |-> {}]
NoOut   == [valid |-> FALSE, results |-> <<>>]

\* the characters told apart, in byte order
Alphabet == <<"\t", " ", ",", "1", "2", "A", "B", "a", "b", "d", "q">>
Rank(c)  == CHOOSE i \in DOMAIN Alphabet : Alphabet[i] = c

\* unicode.IsSpace
IsSpace(c) == c \in {" ", "\t"}

\* strings.ToLower
LowerChar(c) == IF c = "A" THEN "a" ELSE IF c = "B" THEN "b" ELSE c
ToLower(t)   == [i \in DOMAIN t |-> LowerChar(t[i])]

\* strings.TrimSpace
RECURSIVE TrimLeft(_)
TrimLeft(t) == IF t # <<>> /\ IsSpace(Head(t)) THEN TrimLeft(Tail(t)) ELSE t
RECURSIVE TrimRight(_)
TrimRight(t) ==
    IF t # <<>> /\ IsSpace(t[Len(t)]) THEN TrimRight(SubSeq(t, 1, Len(t) - 1)) ELSE t
TrimSpace(t) == TrimRight(TrimLeft(t))

\* strings.Fields: the maximal runs of non-space characters
RECURSIVE FieldsFrom(_, _)
FieldsFrom(t, word) ==
    IF t = <<>> THEN (IF word = <<>> THEN <<>> ELSE <<word>>)
    ELSE IF IsSpace(Head(t))
         THEN (IF word = <<>> THEN <<>> ELSE <<word>>) \o FieldsFrom(Tail(t), <<>>)
         ELSE FieldsFrom(Tail(t), Append(word, Head(t)))
Fields(t) == FieldsFrom(t, <<>>)

\* strings.Join
RECURSIVE Join(_, _)
Join(parts, sep) ==
    IF parts = <<>> THEN <<>>
    ELSE IF Len(parts) = 1 THEN parts[1]
    ELSE parts[1] \o sep \o Join(Tail(parts), sep)

\* the order of Go strings (bytewise)
RECURSIVE StringLess(_, _)
StringLess(x, y) ==
    IF y = <<>> THEN FALSE
    ELSE IF x = <<>> THEN TRUE
    ELSE IF Head(x) # Head(y) THEN Rank(Head(x)) < Rank(Head(y))
    ELSE StringLess(Tail(x), Tail(y))

\* sort.Strings, on a copy
RECURSIVE InsertString(_, _)
InsertString(x, sorted) ==
    IF sorted = <<>> THEN <<x>>
    ELSE IF StringLess(x, Head(sorted)) THEN <<x>> \o sorted
    ELSE <<Head(sorted)>> \o InsertString(x, Tail(sorted))
RECURSIVE SortStrings(_)
SortStrings(list) ==
    IF list = <<>> THEN <<>> ELSE InsertString(Head(list), SortStrings(Tail(list)))

\* queryService.normalizeQuery
normalizeQuery(q) == Join(Fields(TrimSpace(ToLower(q))), <<" ">>)

\* sha256.Sum256 cut to 8 bytes and printed in hex: taken as free of
\* collisions, the digest stands for its input
Digest(data) == <<"sha256", data>>

\* data := normalized + strings.Join(sortedDomains, ",")
KeyData(query, domains) == normalizeQuery(query) \o Join(SortStrings(domains), <<",">>)

\* queryService.cacheKey
cacheKey(query, domains) == <<"search:", Digest(KeyData(query, domains))>>

\* the arguments cacheKey is called with: a sub-query text and the domain
\* list Process built from the user's sources (a domain per source, so a
\* domain can repeat)
MaxKeyQueryLen == 2     \* longest query text handed to cacheKey
MaxDomains     == 2     \* longest domain list handed to cacheKey
KeyQueryChars  == {"a", "A", " ", ","}
KeyQueries     == SeqsUpTo(KeyQueryChars, MaxKeyQueryLen)
KeyDomains     == {<<"a">>, <<"b">>}
KeyDomainLists == SeqsUpTo(KeyDomains, MaxDomains)
KeyInputs      == [query : KeyQueries, domains : KeyDomainLists]

NoKey    == [done |-> FALSE, data |-> <<>>, key |-> <<>>]
IdleKeys == [x |-> [query |-> <<>>, domains |-> <<>>],
             y |-> [query |-> <<>>, domains |-> <<>>], rx |-> NoKey, ry |-> NoKey]

\* cacheKey is called on the two argument pairs
ComputeKeys ==
    /\ scope = "key"
    /\ ~keys.rx.done
    /\ keys' = [keys EXCEPT
                   !.rx = [done |-> TRUE, data |-> KeyData(keys.x.query, keys.x.domains),
                           key |-> cacheKey(keys.x.query, keys.x.domains)],
                   !.ry = [done |-> TRUE, data |-> KeyData(keys.y.query, keys.y.domains),
                           key |-> cacheKey(keys.y.query, keys.y.domains)]]
    /\ UNCHANGED notKey

IsCacheKeyOf(k) == \E q \in Queries : k = cacheKey(q, Domains)

RECURSIVE Flatten(_)
Flatten(lists) ==
    IF lists = <<>> THEN <<>> ELSE Head(lists) \o Flatten(Tail(lists))

RECURSIVE DedupFrom(_, _)
DedupFrom(rs, seen) ==
    IF rs = <<>> THEN <<>>
    ELSE IF Head(rs).URL \in seen
         THEN DedupFrom(Tail(rs), seen)
         ELSE <<Head(rs)>> \o DedupFrom(Tail(rs), seen \cup {Head(rs).URL})

\* Mutant: the seen-map test is dropped, every result is appended.
DedupKeepAll(lists) == Flatten(lists)

\* the loop over resultsChan: the first occurrence of a URL wins
Dedup(lists) == DedupFrom(Flatten(lists), {})

NonIncreasing(rs) == \A i \in 1..(Len(rs) - 1) : rs[i].Score >= rs[i + 1].Score

Perms(rs) ==
    {[i \in DOMAIN rs |-> rs[f[i]]] :
        f \in {g \in [DOMAIN rs -> DOMAIN rs] : \A i, j \in DOMAIN rs : i # j => g[i] # g[j]}}

\* sort.Slice by descending score: not stable, so any arrangement of rs that
\* is ordered by the less function can come out
SortByScore(rs) == {t \in Perms(rs) : NonIncreasing(t)}

\* Mutant: the list is returned whole.
TruncateNone(rs, maxResults) == rs

\* allResults[:maxResults]
Truncate(rs, maxResults) ==
    IF Len(rs) > maxResults THEN SubSeq(rs, 1, maxResults) ELSE rs

\* history of a repeated Process call: the first call's queries and the
\* lists it merged, the queries whose lists it cached with their expiry, and
\* in the second call whether a lookup came after that expiry and whether a
\* query with an unexpired entry went on to the provider; whether a hit
\* served a list that was fetched under another maxResults
IdleRep == [call |-> 1, queries |-> <<>>, lists |-> <<>>, again |-> <<>>,
            cached |-> {}, late |-> FALSE, hitProvider |-> FALSE, otherBudget |-> FALSE]

Recording == scope \in {"repeat", "budget"}

CachedAt(query) == {c \in rep.cached : c.query = query}

\* history: s.cache.Get(cacheKey) has answered for the query
RepOnGet(query, hit) ==
    LET seen == IF hit /\ \E c \in CachedAt(query) : c.maxResults # fan.maxResults
                THEN [rep EXCEPT !.otherBudget = TRUE] ELSE rep
    IN  IF ~Recording THEN rep
        ELSE IF rep.call = 1 \/ CachedAt(query) = {} THEN seen
        ELSE IF \E c \in CachedAt(query) : now > c.expiresAt
             THEN [seen EXCEPT !.late = TRUE]
             ELSE [seen EXCEPT !.hitProvider = @ \/ ~hit]

\* history: s.cache.Set(cacheKey, resp.Results, s.config.CacheTTL) was made
RepOnSet(query) ==
    IF ~Recording THEN rep
    ELSE [rep EXCEPT !.cached = (@ \ CachedAt(query))
                                \cup {[query |-> query, expiresAt |-> now + CacheTTL,
                                       maxResults |-> fan.maxResults]}]

\* history: searchWithCache has returned to Process
RepOnSearchDone ==
    IF ~Recording THEN rep
    ELSE IF rep.call = 1 THEN [rep EXCEPT !.queries = fan.queries, !.lists = fan.chan]
    ELSE [rep EXCEPT !.again = fan.queries]

RepIdle == rep = IdleRep

\* searchWithCache is entered: one goroutine per query is started
StartFanout(queries, maxResults) ==
    fan' = [active |-> TRUE, queries |-> queries, maxResults |-> maxResults,
            sub |-> [i \in DOMAIN queries |-> "get"],
            pending |-> [i \in DOMAIN queries |-> <<>>], chan |-> <<>>, failed |-> {}]

\* searchWithCache called directly with queries and maxResults; where calls
\* follow one another the caller has taken the list of the call before
SearchCall(queries, maxResults) ==
    /\ scope \in {"search", "budget"}
    /\ ~fan.active
    /\ scope = "search" => ~out.valid
    /\ StartFanout(queries, maxResults)
    /\ out' = NoOut
    /\ UNCHANGED <<now, rep, cacheVars, notSearch>>

\* Mutant: resultsChan is unbuffered.
ChanCapUnbuffered(queries) == 0

\* make(chan []search.SearchResult, len(queries))
ChanCap(queries) == Len(queries)

\* resultsChan <- results does not block: the buffer has room (nothing
\* receives before g.Wait() has returned)
CanSend == Len(fan.chan) < ChanCap(fan.queries)

\* searchSingleQuery up to the cache lookup; a hit is returned to the
\* goroutine, which goes on to send it
SubCacheGet(i) ==
    /\ fan.active /\ i \in DOMAIN fan.sub /\ fan.sub[i] = "get"
    /\ LET got == CacheLookup(items, cacheKey(fan.queries[i], Domains), now)
       IN  IF got.hit
           THEN fan' = [fan EXCEPT !.sub[i] = "send", !.pending[i] = got.value]
           ELSE fan' = [fan EXCEPT !.sub[i] = "provider"]
    /\ rep' = RepOnGet(fan.queries[i],
                       CacheLookup(items, cacheKey(fan.queries[i], Domains), now).hit)
    /\ UNCHANGED <<now, out, cacheVars, notSearch>>

\* the provider call succeeds: the list is cached and returned to the
\* goroutine, which goes on to send it
SubProviderOK(i, list) ==
    /\ fan.active /\ i \in DOMAIN fan.sub /\ fan.sub[i] = "provider"
    /\ items' = CacheStore(items, cacheKey(fan.queries[i], Domains), list, CacheTTL, now)
    /\ fan' = [fan EXCEPT !.sub[i] = "send", !.pending[i] = list]
    /\ rep' = RepOnSet(fan.queries[i])
    /\ UNCHANGED <<now, out, lastSet, lastGet, notSearch>>

\* resultsChan <- results, and the goroutine returns
SubSend(i) ==
    /\ fan.active /\ i \in DOMAIN fan.sub /\ fan.sub[i] = "send"
    /\ CanSend
    /\ fan' = [fan EXCEPT !.sub[i] = "done", !.pending[i] = <<>>,
                          !.chan = Append(@, fan.pending[i])]
    /\ UNCHANGED <<now, out, rep, cacheVars, notSearch>>

\* the provider call fails (error status, search timeout, cancellation):
\* the goroutine logs and returns nil, nothing is sent
SubProviderFail(i) ==
    /\ fan.active /\ i \in DOMAIN fan.sub /\ fan.sub[i] = "provider"
    /\ fan' = [fan EXCEPT !.sub[i] = "done", !.failed = @ \cup {i}]
    /\ UNCHANGED <<now, out, rep, cacheVars, notSearch>>

\* g.Wait() has returned: merge, sort, truncate, return
Merge ==
    /\ fan.active
    /\ \A i \in DOMAIN fan.sub : fan.sub[i] = "done"
    /\ \E sorted \in SortByScore(Dedup(fan.chan)) :
          out' = [valid |-> TRUE, results |-> Truncate(sorted, fan.maxResults)]
    /\ fan' = [fan EXCEPT !.active = FALSE]
    /\ UNCHANGED <<now, rep, cacheVars, notSearch>>

(***************************************************************************)
(* Query orchestrator: queryService.Process.  The pipeline is cut at its   *)
(* calls to collaborators (world model, source repository, LLM, search,    *)
(* coordinator, critic); every such call returns one of the outcomes its   *)
(* interface allows.  The caller's context can be cancelled and the        *)
(* request deadline can fire at any moment.                                *)
(***************************************************************************)
MaxCfgRetries     == 3      \* largest configured CriticConfig.MaxRetries
DefaultMaxRetries == 2
Texts             == {<<>>, <<" ">>, <<"q", "1">>}

\* Mutant: only a text of spaces is taken for empty.
IsBlankTextOnlySpaces(t) == t = <<" ">>

\* strings.TrimSpace(q.Text) == ""
IsBlankText(t) == TrimSpace(t) = <<>>

\* QueryRequest.Sanitize on texts of bytes; the length limit is scaled down
MaxQueryLength == 3      \* domain.MaxQueryLength (1000)
SanChars == {"a", " "}
SanTexts == SeqsUpTo(SanChars, MaxQueryLength + 2)

\* q.Text = strings.TrimSpace(q.Text); if len(q.Text) > MaxQueryLength
\* { q.Text = q.Text[:MaxQueryLength] }
Sanitize(t) ==
    LET trimmed == TrimSpace(t)
    IN  IF Len(trimmed) > MaxQueryLength THEN SubSeq(trimmed, 1, MaxQueryLength) ELSE trimmed

IdleSan == [pc |-> "idle", x |-> <<>>, once |-> <<>>, twice |-> <<>>]

\* Sanitize is applied to the text
SanitizeOnce ==
    /\ scope = "sanitize"
    /\ san.pc = "idle"
    /\ san' = [san EXCEPT !.pc = "once", !.once = Sanitize(san.x)]
    /\ UNCHANGED notSan

\* Sanitize is applied to its own result
SanitizeTwice ==
    /\ san.pc = "once"
    /\ san' = [san EXCEPT !.pc = "twice", !.twice = Sanitize(san.once)]
    /\ UNCHANGED notSan

(***************************************************************************)
(* HTTP clients.  One call of a client is followed: every HTTP exchange    *)
(* ends in a network error, an error while the body is read, or a status   *)
(* with a body; the context handed to the call can be cancelled at any     *)
(* moment, and an exchange made under a cancelled context ends in a        *)
(* network error.                                                          *)
(***************************************************************************)
Exchanges == {"netErr", "readErr", "200", "200empty", "200garbled",
              "400", "401", "404", "429", "500", "503"}

IdleCall == [client |-> "none", pc |-> "idle", attempt |-> 0, attempts |-> 0,
             waits |-> <<>>, ctxDone |-> FALSE, last |-> "none", lastErr |-> "none",
             result |-> "none", wraps |-> "none", isRetry |-> FALSE,
             token |-> "none", refreshes |-> 0, handled401 |-> 0]

\* the caller cancels the context of the call, or its deadline passes
CallCtxCancel ==
    /\ call.pc \notin {"idle", "done"}
    /\ ~call.ctxDone
    /\ call' = [call EXCEPT !.ctxDone = TRUE]
    /\ UNCHANGED <<now, notCall>>

\* Mutant: a fourth wait of 8s is added.
BackoffLonger == <<1, 2, 4, 8>>

\* backoff := []time.Duration{1s, 2s, 4s}, in seconds
Backoff == <<1, 2, 4>>

\* tavily Client.Search is called; the loop is entered with attempt 0
TavilySearch ==
    /\ scope = "tavily"
    /\ call.pc = "idle"
    /\ call' = [call EXCEPT !.client = "tavily", !.pc = "attempt"]
    /\ UNCHANGED <<now, notCall>>

\* the statuses of the switch that end the call, with the error returned
TavilyTerminal(x) ==
    CASE x = "200"        -> "none"
      [] x = "200empty"   -> "ErrEmptyResults"
      [] x = "200garbled" -> "unmarshalErr"
      [] x = "401"        -> "ErrUnauthorized"
      [] x = "429"        -> "ErrRateLimit"
      [] x = "400"        -> "ErrInvalidRequest"
      [] OTHER            -> "ErrSearchFailed"

\* lastErr is set and the loop continues
TavilyRetryable(x) == x \in {"netErr", "readErr", "500", "503"}

\* one pass of the loop body from client.Do on: the exchange x is made and
\* the call returns, or goes on to the next wait, or leaves the loop
TavilyAttempt(x) ==
    /\ call.client = "tavily" /\ call.pc = "attempt"
    /\ call.ctxDone => x = "netErr"
    /\ IF ~TavilyRetryable(x)
       THEN call' = [call EXCEPT !.pc = "done", !.attempts = @ + 1, !.last = x,
                                 !.result = TavilyTerminal(x),
                                 !.wraps = IF x = "404" THEN "status" ELSE "none"]
       ELSE IF call.attempt + 1 <= Len(Backoff)
       THEN call' = [call EXCEPT !.pc = "wait", !.attempts = @ + 1, !.last = x,
                                 !.lastErr = x, !.attempt = @ + 1]
       ELSE call' = [call EXCEPT !.pc = "done", !.attempts = @ + 1, !.last = x,
                                 !.lastErr = x, !.attempt = @ + 1,
                                 !.result = "ErrSearchFailed", !.wraps = x]
    /\ UNCHANGED <<now, notCall>>

\* the select before a retry: time.After(backoff[attempt-1]) fires first
TavilyWaitElapsed ==
    /\ call.client = "tavily" /\ call.pc = "wait"
    /\ ~call.ctxDone
    /\ call' = [call EXCEPT !.pc = "attempt", !.waits = Append(@, Backoff[call.attempt])]
    /\ UNCHANGED <<now, notCall>>

\* the select before a retry: ctx.Done() is ready, ctx.Err() is returned
TavilyWaitCancelled ==
    /\ call.client = "tavily" /\ call.pc = "wait"
    /\ call.ctxDone
    /\ call' = [call EXCEPT !.pc = "done", !.result = "ctxErr"]
    /\ UNCHANGED <<now, notCall>>

\* LLM clients: openrouter and gigachat.  A 200 body can also carry an
\* "error" object
LLMClients   == {"openrouter", "gigachat"}
LLMExchanges == Exchanges \cup {"200error"}

\* the token refreshToken obtains: none, or one that getToken takes for
\* valid, or one already within five minutes of its expiry
RefreshOutcomes == {"fail", "valid", "stale"}

\* CompleteWithSystem is called: openrouter builds its request, gigachat's
\* completeWithRetry(isRetry = false) starts with getToken
LLMCall(client) ==
    /\ scope = "llm"
    /\ call.pc = "idle"
    /\ call' = [call EXCEPT !.client = client,
                            !.pc = IF client = "gigachat" THEN "token" ELSE "attempt"]
    /\ UNCHANGED <<now, notCall>>

\* getToken: the stored token when it is valid, else refreshToken (one
\* request to the auth URL).  Called at the start of completeWithRetry and,
\* after invalidateToken, in its 401 branch, which then calls
\* completeWithRetry(isRetry = true)
GigaGetToken(r) ==
    /\ call.client = "gigachat" /\ call.pc \in {"token", "token401"}
    /\ call.ctxDone => r = "fail"
    /\ IF call.token = "valid"
       THEN call' = [call EXCEPT !.pc = "attempt"]
       ELSE IF r = "fail"
       THEN call' = [call EXCEPT !.pc = "done", !.refreshes = @ + 1,
                                 !.result = IF call.pc = "token401" THEN "ErrAuthFailed"
                                            ELSE "tokenErr"]
       ELSE call' = [call EXCEPT !.refreshes = @ + 1, !.token = r,
                                 !.pc = IF call.pc = "token401" THEN "token" ELSE "attempt",
                                 !.isRetry = @ \/ call.pc = "token401"]
    /\ UNCHANGED <<now, notCall>>

\* DoRequest, HandleHTTPError, the parsing of the body and ExtractContent
LLMResult(client, x) ==
    CASE x = "200"        -> "none"
      [] x = "200empty"   -> "ErrEmptyResponse"
      [] x = "200garbled" -> "unmarshalErr"
      [] x = "200error"   -> IF client = "openrouter" THEN "ErrRequestFailed"
                             ELSE "ErrEmptyResponse"
      [] x = "readErr"    -> "readErr"
      [] x = "401"        -> "ErrAuthFailed"
      [] x = "429"        -> "ErrRateLimit"
      [] OTHER            -> "ErrRequestFailed"

\* Mutant: a 401 is answered with a refresh and a retry every time.
MayRetryAlways(isRetry) == TRUE

\* if isRetry { return "", llm.ErrAuthFailed }
MayRetry(isRetry) == ~isRetry

\* the completion request is sent and its answer handled
LLMAttempt(x) ==
    /\ call.client \in LLMClients /\ call.pc = "attempt"
    /\ call.ctxDone => x = "netErr"
    /\ IF call.client = "gigachat" /\ x = "401" /\ MayRetry(call.isRetry)
       THEN call' = [call EXCEPT !.pc = "token401", !.attempts = @ + 1, !.last = x,
                                 !.token = "none", !.handled401 = @ + 1]
       ELSE call' = [call EXCEPT !.pc = "done", !.attempts = @ + 1, !.last = x,
                                 !.result = LLMResult(call.client, x)]
    /\ UNCHANGED <<now, notCall>>

NoAnswer == [src |-> "none", n |-> 0]
Answer(src, n) == [src |-> src, n |-> n]

\* NewQueryService: the critic configuration the service keeps
NewCriticConfig(d) ==
    [maxRetries |-> IF d.maxRetries = 0 THEN DefaultMaxRetries ELSE d.maxRetries,
     strictMode |-> d.strictMode]

\* CriticResult.NeedsRevisionStrict
NeedsRevisionStrict(r, strictMode) ==
    ~r.approved \/ r.issues > 0 \/ (strictMode /\ r.suggestions > 0)

CriticResults == [approved : BOOLEAN, issues : 0..1, suggestions : 0..1]

\* the user's sources as ListByUser returns them, and the domain of a result URL
UserSources == <<[Domain |-> "d1", TrustLevel |-> "high"]>>
DomainOfURL == [u1 |-> "d1", u2 |-> "d2"]

\* Mutant: the marker is numbered from the loop index itself.
MarkerZeroBased(i) == "[S" \o ToString(i) \o "]"

\* fmt.Sprintf("[S%d]", i+1) for the loop index i (from 0)
Marker(i) == "[S" \o ToString(i + 1) \o "]"

\* Mutant: the prompts list the sources in the reverse order.
PromptSourcesReversed(results) ==
    [k \in DOMAIN results |->
        [Marker |-> Marker(k - 1), URL |-> results[Len(results) + 1 - k].URL]]

\* for i, r := range results { "[S%d] %s (%s)", i+1, r.Title, r.URL }: the
\* source list written into the prompt of an agent, of analyze, of the
\* critic and of improveAnswer
PromptSources(results) ==
    [k \in DOMAIN results |-> [Marker |-> Marker(k - 1), URL |-> results[k].URL]]

\* queryService.toSourceRefs
toSourceRefs(results, trustMap) ==
    [k \in DOMAIN results |->
        [Marker     |-> Marker(k - 1),
         URL        |-> results[k].URL,
         TrustLevel |-> IF DomainOfURL[results[k].URL] \in DOMAIN trustMap
                        THEN trustMap[DomainOfURL[results[k].URL]]
                        ELSE "medium"]]

\* the domain -> trust map Process builds from the user's sources
TrustMapOf(srcs) ==
    [d \in {srcs[i].Domain : i \in DOMAIN srcs} |->
        srcs[CHOOSE i \in DOMAIN srcs :
                /\ srcs[i].Domain = d
                /\ \A j \in DOMAIN srcs : srcs[j].Domain = d => j <= i].TrustLevel]

\* expandQuery and the fallback of Process: the queries handed to the search
ExpandOutcomes ==
    {[kind |-> k, queries |-> <<>>] : k \in {"err", "empty", "malformed"}}
    \cup {[kind |-> "ok", queries |-> qs] : qs \in SeqsUpTo(ProposedQueries, MaxQueries + 1)}

\* Mutant: an over-long list is handed on whole.
expandQueryNoCut(userQuery, resp, maxQueries) ==
    IF resp.kind # "ok" \/ resp.queries = <<>> THEN <<userQuery>> ELSE resp.queries

expandQuery(userQuery, resp, maxQueries) ==
    IF resp.kind # "ok" \/ resp.queries = <<>> THEN <<userQuery>>
    ELSE IF Len(resp.queries) > maxQueries THEN SubSeq(resp.queries, 1, maxQueries)
    ELSE resp.queries

\* ctx.Err() of the request context
CtxDone(c) ==
    CASE c = "caller"     -> p.callerDone
      [] c = "request"    -> p.ctxErr # "none"
      [] c = "background" -> FALSE

\* Mutant: the extraction is given the request context.
ExtractionCtxRequest == "request"

\* the context Process passes to the background ExtractAndStore
ExtractionCtx == "background"

IdleProc == [pc |-> "idle", text |-> <<>>, strategy |-> [useCritic |-> FALSE,
             maxQueries |-> 1, maxResults |-> 1], callerDone |-> FALSE, lateCancel |-> FALSE,
             ctxErr |-> "none", trustMap |-> <<>>, results |-> <<>>,
             answer |-> NoAnswer, attempt |-> 0, err |-> "none", failedAt |-> "none",
             hasResponse |-> FALSE, response |-> [Text |-> NoAnswer, Sources |-> <<>>]]
NoBg     == [state |-> "none", ctx |-> "background", answer |-> NoAnswer, starts |-> 0]
NoHist   == [subFailed |-> FALSE, review |-> 0, improve |-> 0, analyze |-> 0, coordinator |-> 0,
             latest |-> NoAnswer, exit |-> "none", expand |-> "none", coordOut |-> "none",
             analyzeErr |-> FALSE, deadlineEarly |-> FALSE, llm |-> 0,
             given |-> {}, unparsed |-> FALSE]

Strategies ==
    [useCritic : BOOLEAN, maxQueries : 1..MaxQueries, maxResults : 1..MaxResultsArg]

\* Process returns (nil, err); the deferred cancel releases the request context
Fail(stage, e) ==
    p' = [p EXCEPT !.pc = "done", !.err = e, !.failedAt = stage,
                   !.ctxErr = IF @ = "none" THEN "canceled" ELSE @]

\* Process is called: Validate and Sanitize, the deadline is derived
ProcessStart(text, strategy) ==
    /\ scope \in {"process", "repeat"}
    /\ p.pc = "idle"
    /\ IF IsBlankText(text)
       THEN p' = [p EXCEPT !.pc = "done", !.text = text, !.strategy = strategy,
                           !.err = "ErrEmptyQuery", !.failedAt = "validate"]
       ELSE p' = [p EXCEPT !.pc = "context", !.text = text, !.strategy = strategy]
    /\ UNCHANGED <<deps, cfg, bg, hist, notProc>>

\* worldModel.GetRelevantContext, whose error is ignored
ProcessContext ==
    /\ p.pc = "context"
    /\ p' = [p EXCEPT !.pc = "sources"]
    /\ UNCHANGED <<deps, cfg, bg, hist, notProc>>

\* sources.ListByUser and the domain list / trust map built from it
ProcessSources(outcome) ==
    /\ p.pc = "sources"
    /\ CASE outcome = "err"  -> Fail("sources", "sourcesErr")
         [] outcome = "none" -> Fail("sources", "ErrNoSources")
         [] outcome = "some" -> p' = [p EXCEPT !.pc = "expand",
                                                !.trustMap = TrustMapOf(UserSources)]
    /\ UNCHANGED <<deps, cfg, bg, hist, notProc>>

\* which of the LLM outcomes expandQuery met
ExpandClass(resp, maxQueries) ==
    IF resp.kind # "ok" THEN resp.kind
    ELSE IF resp.queries = <<>> THEN "emptyList"
    ELSE IF Len(resp.queries) > maxQueries THEN "overlong" ELSE "fits"

\* expandQuery (with the fallback to the user's text), then searchWithCache
\* is entered
ProcessExpand(resp) ==
    /\ p.pc = "expand"
    /\ p' = [p EXCEPT !.pc = "search"]
    /\ StartFanout(expandQuery(p.text, resp, p.strategy.maxQueries), p.strategy.maxResults)
    /\ out' = NoOut
    /\ hist' = [hist EXCEPT !.expand = ExpandClass(resp, p.strategy.maxQueries),
                            !.llm = @ + 1]
    /\ UNCHANGED <<deps, cfg, bg, now, scope, cacheVars, limiterVars, wmVars,
                   coordVars, criticVars, sweepVars, keyVars, repVars,
                   sanVars, callVars, storeVars>>

\* Mutant: a single result is treated as none.
NoResultsOffByOne(rs) == Len(rs) <= 1

\* len(results) == 0
NoResults(rs) == Len(rs) = 0

\* Mutant: the request context is not looked at after the fan-out.
AfterSearchErrorNoCtx(ctxErr, rs) ==
    IF NoResults(rs) THEN "ErrNoResults" ELSE "none"

\* the error Process returns once searchWithCache is back: ctx.Err() first,
\* then the empty list
AfterSearchError(ctxErr, rs) ==
    IF ctxErr # "none" THEN ctxErr
    ELSE IF NoResults(rs) THEN "ErrNoResults" ELSE "none"

\* searchWithCache has returned: the checks of ctx.Err() and of an empty list
ProcessAfterSearch ==
    /\ p.pc = "search"
    /\ out.valid
    /\ LET e == AfterSearchError(p.ctxErr, out.results)
       IN  IF e # "none"
           THEN p' = [p EXCEPT !.pc = "done", !.err = e, !.failedAt = "search",
                               !.results = out.results,
                               !.ctxErr = IF @ = "none" THEN "canceled" ELSE @]
           ELSE p' = [p EXCEPT !.pc = "coord", !.results = out.results]
    /\ hist' = [hist EXCEPT !.subFailed = (fan.failed # {}), !.expand = "none"]
    /\ fan' = IdleFan
    /\ out' = NoOut
    /\ rep' = RepOnSearchDone
    /\ UNCHANGED <<deps, cfg, bg, now, scope, cacheVars, limiterVars, wmVars,
                   coordVars, criticVars, sweepVars, keyVars, sanVars, callVars, storeVars>>

\* history: the stage is handed the result slice of Process
Given(stage) == hist.given \cup {<<stage, PromptSources(p.results)>>}

\* where Process goes once it has an answer: the critic loop or the response
AfterAnswer == IF cfg.critic /\ p.strategy.useCritic THEN "review" ELSE "respond"

\* Mutant: whatever the coordinator returns without an error is adopted.
CoordinatorAnsweredIfNoError(outcome) == outcome # "err"

\* coordErr == nil && coordResp != nil && coordResp.FinalAnswer != ""
CoordinatorAnswered(outcome) == outcome = "answer"

\* coordinator.Process, when a coordinator is wired
ProcessCoordinator(outcome) ==
    /\ p.pc = "coord"
    /\ IF ~cfg.coordinator
       THEN /\ p' = [p EXCEPT !.pc = "analyze"]
            /\ UNCHANGED hist
       ELSE /\ hist' = [hist EXCEPT !.coordinator = @ + 1, !.coordOut = outcome,
                            !.given = Given("coordinator"),
                            !.latest = IF CoordinatorAnswered(outcome)
                                       THEN Answer("coordinator", 0) ELSE @]
            /\ IF CoordinatorAnswered(outcome)
               THEN p' = [p EXCEPT !.pc = AfterAnswer, !.answer = Answer("coordinator", 0)]
               ELSE p' = [p EXCEPT !.pc = "analyze"]
    /\ UNCHANGED <<deps, cfg, bg, notProc>>

\* Mutant: the error of analyze is dropped, Process goes on without an answer.
OnAnalyzeErrorIgnored == p' = [p EXCEPT !.pc = AfterAnswer]

\* if err != nil { return nil, err } after analyze
OnAnalyzeError == Fail("analyze", "llmErr")

\* analyze: the single LLM analysis call
ProcessAnalyze(ok) ==
    /\ p.pc = "analyze"
    /\ hist' = [hist EXCEPT !.analyze = @ + 1, !.analyzeErr = ~ok, !.llm = @ + 1,
                            !.given = Given("analyze"),
                            !.latest = IF ok THEN Answer("analyze", 0) ELSE @]
    /\ IF ok
       THEN p' = [p EXCEPT !.pc = AfterAnswer, !.answer = Answer("analyze", 0)]
       ELSE OnAnalyzeError
    /\ UNCHANGED <<deps, cfg, bg, notProc>>

ParseFailedConfidence == 3       \* Confidence 0.3, in tenths
ParseFailedIssue == "critic_parse_failed: could not parse LLM response"

\* Mutant: an unparsable critic output counts as a rejection.
ParseFailedResultRejecting ==
    [Approved |-> FALSE, Issues |-> <<ParseFailedIssue>>, Suggestions |-> <<>>,
     Confidence |-> ParseFailedConfidence]

\* the result parseResponse makes up when Unmarshal fails
ParseFailedResult ==
    [Approved |-> TRUE, Issues |-> <<ParseFailedIssue>>, Suggestions |-> <<>>,
     Confidence |-> ParseFailedConfidence]

\* what the loop sees of the result parseResponse makes up for an output it
\* cannot parse
ReviewOfUnparsable ==
    [approved    |-> ParseFailedResult.Approved,
     issues      |-> Len(ParseFailedResult.Issues),
     suggestions |-> Len(ParseFailedResult.Suggestions)]

\* reviewWithCritic: the loop test and one critic.Review call with what
\* follows it up to the next call
CriticReview(ok, r) ==
    /\ p.pc = "review"
    /\ IF p.attempt > cfg.maxRetries
       THEN /\ p' = [p EXCEPT !.pc = "respond"]
            /\ hist' = [hist EXCEPT !.exit = "loopEnd"]
       ELSE /\ IF ~ok
               THEN /\ p' = [p EXCEPT !.pc = "respond"]
                    /\ hist' = [hist EXCEPT !.review = @ + 1, !.given = Given("critic"), !.exit = "reviewErr",
                                            !.unparsed = FALSE]
               ELSE IF ~NeedsRevisionStrict(r, cfg.strictMode)
               THEN /\ p' = [p EXCEPT !.pc = "respond"]
                    /\ hist' = [hist EXCEPT !.review = @ + 1, !.given = Given("critic"), !.exit = "approved",
                                            !.unparsed = (r = ReviewOfUnparsable)]
               ELSE IF p.attempt >= cfg.maxRetries
               THEN /\ p' = [p EXCEPT !.pc = "respond"]
                    /\ hist' = [hist EXCEPT !.review = @ + 1, !.given = Given("critic"), !.exit = "maxRetries",
                                            !.unparsed = (r = ReviewOfUnparsable)]
               ELSE /\ p' = [p EXCEPT !.pc = "improve"]
                    /\ hist' = [hist EXCEPT !.review = @ + 1, !.given = Given("critic"),
                                            !.unparsed = (r = ReviewOfUnparsable)]
    /\ UNCHANGED <<deps, cfg, bg, notProc>>

\* Mutant: a failed improvement hands back an empty answer.
ImproveFailedAnswerEmpty(current) == NoAnswer

\* what reviewWithCritic returns when improveAnswer fails
ImproveFailedAnswer(current) == current

\* Mutant: the loop keeps reviewing the answer it had before the improvement.
AfterImproveKeepsOld(current, improved) == current

\* currentAnswer = improvedAnswer
AfterImprove(current, improved) == improved

\* improveAnswer: one LLM call; its output becomes the current answer
CriticImprove(ok) ==
    /\ p.pc = "improve"
    /\ IF ok
       THEN /\ p' = [p EXCEPT !.pc = "review", !.attempt = @ + 1,
                              !.answer = AfterImprove(@, Answer("improve", hist.improve + 1))]
            /\ hist' = [hist EXCEPT !.improve = @ + 1, !.llm = @ + 1,
                                    !.given = Given("improve"),
                                    !.latest = Answer("improve", hist.improve + 1)]
       ELSE /\ p' = [p EXCEPT !.pc = "respond", !.answer = ImproveFailedAnswer(@)]
            /\ hist' = [hist EXCEPT !.improve = @ + 1, !.llm = @ + 1,
                                    !.given = Given("improve"),
                                    !.exit = "improveErr"]
    /\ UNCHANGED <<deps, cfg, bg, notProc>>

\* Mutant: the extraction is handed an empty answer.
ExtractionAnswerEmpty(answer) == NoAnswer

\* the answer argument of the background ExtractAndStore call
ExtractionAnswer(answer) == answer

\* the response is built, the background extraction is started, Process
\* returns (response, nil)
ProcessRespond ==
    /\ p.pc = "respond"
    /\ p' = [p EXCEPT !.pc = "done", !.hasResponse = TRUE,
                      !.response = [Text |-> p.answer,
                                    Sources |-> toSourceRefs(p.results, p.trustMap)],
                      !.ctxErr = IF @ = "none" THEN "canceled" ELSE @]
    /\ IF cfg.worldModel
       THEN bg' = [state |-> "running", ctx |-> ExtractionCtx,
                   answer |-> ExtractionAnswer(p.answer), starts |-> bg.starts + 1]
       ELSE UNCHANGED bg
    /\ UNCHANGED <<deps, cfg, hist, notProc>>

\* Process is called a second time with the text and strategy of the first
\* call, which succeeded; from now on every search-provider call fails
ProcessAgain ==
    /\ scope = "repeat"
    /\ rep.call = 1
    /\ p.pc = "done" /\ p.err = "none" /\ p.hasResponse
    /\ p' = [IdleProc EXCEPT !.pc = "context", !.text = p.text, !.strategy = p.strategy]
    /\ hist' = NoHist
    /\ rep' = [rep EXCEPT !.call = 2]
    /\ UNCHANGED <<deps, cfg, bg, now, scope, cacheVars, limiterVars, wmVars, searchVars,
                   coordVars, criticVars, sweepVars, keyVars, sanVars, callVars, storeVars>>

\* Mutant: an extraction failure is written into the result of Process.
ExtractionEndSurfaced(outcome) ==
    /\ bg.state = "running"
    /\ outcome = "cancelled" => CtxDone(bg.ctx)
    /\ bg' = [bg EXCEPT !.state = outcome]
    /\ p' = IF outcome = "ok" THEN p ELSE [p EXCEPT !.err = "extractErr"]
    /\ UNCHANGED <<deps, cfg, hist, notProc>>

\* the background ExtractAndStore ends (its error is only logged); it can
\* end as cancelled only when the context it was given is done
ExtractionEnd(outcome) ==
    /\ bg.state = "running"
    /\ outcome = "cancelled" => CtxDone(bg.ctx)
    /\ bg' = [bg EXCEPT !.state = outcome]
    /\ UNCHANGED <<deps, cfg, p, hist, notProc>>

\* the caller cancels the context it passed to Process
CallerCancel ==
    /\ p.pc # "idle"
    /\ ~p.callerDone
    /\ p' = [p EXCEPT !.callerDone = TRUE, !.lateCancel = (p.pc = "done"),
                      !.ctxErr = IF @ = "none" THEN "canceled" ELSE @]
    /\ UNCHANGED <<deps, cfg, bg, hist, notProc>>

\* the deadline derived from strategy.TimeoutSeconds passes
DeadlineFire ==
    /\ p.pc \notin {"idle", "done"}
    /\ p.ctxErr = "none"
    /\ p' = [p EXCEPT !.ctxErr = "deadlineExceeded"]
    /\ hist' = [hist EXCEPT !.deadlineEarly =
                                p.pc \in {"context", "sources", "expand", "search"}]
    /\ UNCHANGED <<deps, cfg, bg, notProc>>

(***************************************************************************)
(* Agent coordinator (agent.Coordinator).  An agent is known by its index  *)
(* in Coordinator.agents, the registration order; agents[i] is the score   *)
(* its CanHandle returns for the question of the request, in tenths (the   *)
(* threshold 0.3 is 3).  The agents run as goroutines joined by a          *)
(* WaitGroup; a response is appended to the shared slice under a mutex.    *)
(***************************************************************************)
MaxRegistered == 4      \* most agents registered with one coordinator
MinConfidence == 3      \* Coordinator.minConfidence (0.3), in tenths
ScoreTenths   == {2, 3, 5}
StrategyKinds == {"quick", "standard", "deep", "other"}

IdleCoord == [pc |-> "idle", kind |-> "quick", selected |-> <<>>, status |-> <<>>,
              results |-> <<>>, used |-> <<>>, answer |-> "", err |-> "none",
              synth |-> 0]

\* Mutant: every strategy gets the deep quota.
maxAgentsForDeepAlways(kind) == 4

\* Coordinator.maxAgentsFor
maxAgentsFor(kind) ==
    CASE kind = "quick"    -> 1
      [] kind = "standard" -> 2
      [] kind = "deep"     -> 4
      [] OTHER             -> 2

\* the scored list selectAgents builds, in registration order
ScoredAgents == [i \in DOMAIN agents |-> [a |-> i, Score |-> agents[i]]]

\* Mutant: a score equal to the threshold does not qualify.
QualifiesStrict(score) == score > MinConfidence

\* s.score >= c.minConfidence
Qualifies(score) == score >= MinConfidence

\* result[:maxAgents]
TruncateAgents(ss, maxAgents) ==
    IF Len(ss) > maxAgents THEN SubSeq(ss, 1, maxAgents) ELSE ss

\* Coordinator.selectAgents: every list the call can return (sort.Slice is
\* not stable, so agents of equal score come out in any order)
selectAgents(maxAgents) ==
    IF agents = <<>> THEN {<<>>}
    ELSE {LET qualified == SelectSeq(ss, LAMBDA s : Qualifies(s.Score))
              result    == IF qualified = <<>> THEN ss ELSE qualified
              cut       == TruncateAgents(result, maxAgents)
          IN  [k \in DOMAIN cut |-> cut[k].a] : ss \in SortByScore(ScoredAgents)}

\* the response an agent hands back on success
AgentResponse(a) == [AgentName |-> a, Content |-> "content" \o ToString(a)]

\* Mutant: the fan-out is an error group, a failure cancels the siblings
\* that are still running.
AfterFailureAbortsSiblings(status, a) ==
    [b \in DOMAIN status |->
        IF b = a THEN "failed" ELSE IF status[b] = "running" THEN "aborted" ELSE status[b]]

\* runParallel: an agent's error is logged; its goroutine returns
AfterFailure(status, a) == [status EXCEPT ![a] = "failed"]

\* Mutant: a lone response is synthesized like any other.
IsSingleNever(responses) == FALSE

\* len(responses) == 1
IsSingle(responses) == Len(responses) = 1

\* Coordinator.Process up to the start of the agents' goroutines
CoordProcess(kind, questionOK) ==
    /\ scope = "coordinator"
    /\ co.pc = "idle"
    /\ IF ~questionOK
       THEN co' = [co EXCEPT !.pc = "done", !.kind = kind, !.err = "ErrEmptyQuestion"]
       ELSE \E sel \in selectAgents(maxAgentsFor(kind)) :
              IF sel = <<>>
              THEN co' = [co EXCEPT !.pc = "done", !.kind = kind,
                                    !.err = "ErrNoAgentResponses"]
              ELSE co' = [co EXCEPT !.pc = "running", !.kind = kind, !.selected = sel,
                                    !.status = [a \in {sel[k] : k \in DOMAIN sel} |-> "running"]]
    /\ UNCHANGED <<agents, notCoord>>

\* one agent's goroutine: agent.Process returns, a response is appended
AgentReturn(a, ok) ==
    /\ co.pc = "running"
    /\ a \in DOMAIN co.status
    /\ co.status[a] = "running"
    /\ IF ok
       THEN co' = [co EXCEPT !.status[a] = "ok",
                             !.results = Append(@, AgentResponse(a))]
       ELSE co' = [co EXCEPT !.status = AfterFailure(@, a)]
    /\ UNCHANGED <<agents, notCoord>>

\* wg.Wait() returns; Coordinator.Process builds its result
CoordJoin(synthOK) ==
    /\ co.pc = "running"
    /\ \A a \in DOMAIN co.status : co.status[a] # "running"
    /\ IF Len(co.results) = 0
       THEN co' = [co EXCEPT !.pc = "done", !.err = "ErrNoAgentResponses"]
       ELSE IF IsSingle(co.results)
       THEN co' = [co EXCEPT !.pc = "done", !.answer = co.results[1].Content,
                        !.used = [k \in DOMAIN co.results |-> co.results[k].AgentName]]
       ELSE IF synthOK
       THEN co' = [co EXCEPT !.pc = "done", !.synth = @ + 1,
                        !.answer = "synthesis",
                        !.used = [k \in DOMAIN co.results |-> co.results[k].AgentName]]
       ELSE co' = [co EXCEPT !.pc = "done", !.synth = @ + 1, !.err = "synthesisFailed"]
    /\ UNCHANGED <<agents, notCoord>>

CoordIdle == agents = <<>> /\ co = IdleCoord

(***************************************************************************)
(* Critic service (CriticService.Review).  The LLM output is a string over *)
(* a small alphabet: the braces, "t" for the member "approved":true, "i"   *)
(* for a member "issues":[...] with one entry, "n" for the literal null    *)
(* and "x" for any other text.  A JSON object is a brace pair holding      *)
(* members and nested objects (the value of a member Unmarshal skips).     *)
(* Confidence is in tenths.                                                *)
(***************************************************************************)
MaxRespLen == 5         \* longest LLM output
RespChars  == {"{", "}", "t", "i", "n", "x"}
Responses  == SeqsUpTo(RespChars, MaxRespLen)

IdleReview == [pc |-> "idle", response |-> <<>>, parseErr |-> FALSE, err |-> "none",
               result |-> [Approved |-> FALSE, Issues |-> <<>>, Suggestions |-> <<>>,
                           Confidence |-> 0]]

\* strings.Index(s, "{"), from 1; 0 when there is none
IndexOfBrace(s) ==
    IF \E i \in DOMAIN s : s[i] = "{"
    THEN CHOOSE i \in DOMAIN s : s[i] = "{" /\ \A j \in 1..(i - 1) : s[j] # "{"
    ELSE 0

\* the depth-counting loop of extractJSON from position i: the position of
\* the brace that brings the depth back to 0, or 0 when the string ends first
RECURSIVE ClosingBrace(_, _, _)
ClosingBrace(s, i, depth) ==
    IF i > Len(s) THEN 0
    ELSE IF s[i] = "{" THEN ClosingBrace(s, i + 1, depth + 1)
    ELSE IF s[i] = "}"
         THEN IF depth - 1 = 0 THEN i ELSE ClosingBrace(s, i + 1, depth - 1)
         ELSE ClosingBrace(s, i + 1, depth)

\* extractJSON
extractJSON(s) ==
    LET start == IndexOfBrace(s)
    IN  IF start = 0 THEN s
        ELSE LET end == ClosingBrace(s, start, 0)
             IN  IF end = 0 THEN SubSeq(s, start, Len(s)) ELSE SubSeq(s, start, end)

\* the members of a JSON object text that sit directly in the outer braces
RECURSIVE TopMembers(_, _, _)
TopMembers(s, i, depth) ==
    IF i > Len(s) THEN {}
    ELSE IF s[i] = "{" THEN TopMembers(s, i + 1, depth + 1)
    ELSE IF s[i] = "}" THEN TopMembers(s, i + 1, depth - 1)
    ELSE (IF depth = 1 THEN {s[i]} ELSE {}) \cup TopMembers(s, i + 1, depth)

\* json.Unmarshal(text, &result) returns an error: text is neither null nor
\* one well-formed object
UnmarshalFails(text) ==
    IF text = <<"n">> THEN FALSE
    ELSE \/ text = <<>>
         \/ Head(text) # "{"
         \/ ClosingBrace(text, 1, 0) # Len(text)
         \/ \E i \in DOMAIN text : text[i] \in {"x", "n"}

\* the fields json.Unmarshal fills in; a field the text lacks keeps its zero value
Unmarshalled(text) ==
    LET ms == IF text = <<"n">> THEN {} ELSE TopMembers(text, 1, 0)
    IN  [Approved    |-> "t" \in ms,
         Issues      |-> IF "i" \in ms THEN <<"issue">> ELSE <<>>,
         Suggestions |-> <<>>,
         Confidence  |-> 0]

\* CriticService.parseResponse
parseResponse(llmResponse) ==
    LET jsonStr == extractJSON(llmResponse)
    IN  IF UnmarshalFails(jsonStr) THEN ParseFailedResult ELSE Unmarshalled(jsonStr)

\* CriticService.Review: the context check, the LLM call, parseResponse
Review(ctxDone, llmOK) ==
    /\ scope = "critic"
    /\ rv.pc = "idle"
    /\ IF ctxDone
       THEN rv' = [rv EXCEPT !.pc = "done", !.err = "ctxErr"]
       ELSE IF ~llmOK
       THEN rv' = [rv EXCEPT !.pc = "done", !.err = "llmErr"]
       ELSE \E response \in Responses :
              rv' = [rv EXCEPT !.pc = "done", !.response = response,
                               !.parseErr = UnmarshalFails(extractJSON(response)),
                               !.result = parseResponse(response)]
    /\ UNCHANGED notCritic

\* the caller is handed the result; the service is ready for the next call
ReviewReturn ==
    /\ rv.pc = "done"
    /\ rv' = IdleReview
    /\ UNCHANGED notCritic

ReviewIdle == rv = IdleReview

(***************************************************************************)
(* sourceService over the SourceRepository: Add, Remove and ImportSeed.    *)
(* Every Telegram update is handled in a goroutine of its own, so the      *)
(* operations of one user interleave at their repository calls.            *)
(***************************************************************************)
MaxSourcesPerUser == 2  \* domain.MaxSourcesPerUser (100)
MaxSourceID  == 3       \* ids the sequence hands out before the model stops
SourceOps    == {"o1", "o2"}    \* update goroutines running a source command

Url(scheme, host) == [scheme |-> scheme, host |-> host]

\* the URLs a user sends to Add: valid ones, a wrong scheme, a missing host
AddURLs == {Url("https", "a"), Url("https", "b"), Url("http", "c"),
            Url("ftp", "a"), Url("https", "")}

\* seed_sources.json is embedded at build time; its entries are data, so
\* the list is drawn at start: empty, one entry, two entries of which one
\* is a URL a user may also add
SeedLists == {<<>>, <<Url("https", "s")>>, <<Url("https", "s"), Url("https", "a")>>}

IdleOp == [pc |-> "idle", user |-> 0, url |-> Url("", ""), i |-> 0]

IdleStore == [rows |-> {}, nextID |-> 1, seeds |-> <<>>,
              ops |-> [o \in SourceOps |-> IdleOp]]

\* Source.Validate: http or https with a host
SourceValidate(url) == url.scheme \in {"http", "https"} /\ url.host # ""

SourcesOf(u) == {r \in store.rows : r.user = u}

CountByUser(u) == Cardinality(SourcesOf(u))

ExistsByURL(u, url) == \E r \in store.rows : r.user = u /\ r.url = url

\* the operation returns, with the error named in the comment at the call
Returned(o) == [store.ops EXCEPT ![o] = IdleOp]

\* SourceRepository.Create: UNIQUE(user_id, url) rejects a duplicate, else
\* the row is inserted under the next id
RepoCreate(u, url, ops) ==
    IF ExistsByURL(u, url)
    THEN [store EXCEPT !.ops = ops]
    ELSE [store EXCEPT !.rows = @ \cup {[id |-> store.nextID, user |-> u, url |-> url]},
                       !.nextID = @ + 1,
                       !.ops = ops]

\* Add, up to the count: Validate, then on to CountByUser
SourceAdd(o, u, url) ==
    /\ scope = "sources"
    /\ store.ops[o].pc = "idle"
    /\ store' = [store EXCEPT !.ops =
                    IF SourceValidate(url)
                    THEN [@ EXCEPT ![o] = [IdleOp EXCEPT !.pc = "count", !.user = u, !.url = url]]
                    ELSE Returned(o)]  \* ErrInvalidURL
    /\ UNCHANGED notStore

\* Add: CountByUser and the comparison with MaxSourcesPerUser
SourceAddCount(o, ok) ==
    /\ store.ops[o].pc = "count"
    /\ store' = [store EXCEPT !.ops =
                    IF ~ok THEN Returned(o)  \* the error of CountByUser
                    ELSE IF CountByUser(store.ops[o].user) >= MaxSourcesPerUser
                         THEN Returned(o)  \* ErrSourceLimitReached
                         ELSE [@ EXCEPT ![o].pc = "create"]]
    /\ UNCHANGED notStore

\* Add: Create, and the return
SourceAddCreate(o, ok) ==
    /\ store.ops[o].pc = "create"
    /\ store.nextID <= MaxSourceID
    /\ LET op == store.ops[o]
       IN store' = IF ~ok THEN [store EXCEPT !.ops = Returned(o)]  \* the error of Create
                   ELSE IF ExistsByURL(op.user, op.url)
                        THEN [store EXCEPT !.ops = Returned(o)]  \* ErrDuplicateSource
                        ELSE RepoCreate(op.user, op.url, Returned(o))
    /\ UNCHANGED notStore

\* Remove: one Delete of the row with that id and user
SourceRemove(o, u, id) ==
    /\ scope = "sources"
    /\ store.ops[o].pc = "idle"
    /\ LET hit == {r \in store.rows : r.id = id /\ r.user = u}
       IN store' = IF hit = {}
                   THEN [store EXCEPT !.ops = Returned(o)]  \* ErrSourceNotFound
                   ELSE [store EXCEPT !.rows = @ \ hit, !.ops = Returned(o)]
    /\ UNCHANGED notStore

\* ImportSeed: the next seed of the loop, or the return after the last one
SeedAdvance(o) ==
    IF store.ops[o].i < Len(store.seeds)
    THEN [store.ops EXCEPT ![o].pc = "exists", ![o].i = @ + 1]
    ELSE Returned(o)

\* ImportSeed: the list is parsed and the loop entered
ImportSeed(o, u) ==
    /\ scope = "sources"
    /\ store.ops[o].pc = "idle"
    /\ store' = [store EXCEPT !.ops =
                    IF store.seeds = <<>> THEN Returned(o)
                    ELSE [@ EXCEPT ![o] = [IdleOp EXCEPT !.pc = "exists", !.user = u, !.i = 1]]]
    /\ UNCHANGED notStore

\* ImportSeed: ExistsByURL of the current seed; a failed check and a seed
\* already stored both continue with the next seed
ImportSeedExists(o, ok) ==
    /\ store.ops[o].pc = "exists"
    /\ store' = [store EXCEPT !.ops =
                    IF ~ok \/ ExistsByURL(store.ops[o].user, store.seeds[store.ops[o].i])
                    THEN SeedAdvance(o)
                    ELSE [@ EXCEPT ![o].pc = "seed"]]
    /\ UNCHANGED notStore

\* ImportSeed: Create of the current seed; a failure is logged and the loop
\* continues
ImportSeedCreate(o, ok) ==
    /\ store.ops[o].pc = "seed"
    /\ store.nextID <= MaxSourceID
    /\ LET op == store.ops[o]
       IN store' = IF ~ok THEN [store EXCEPT !.ops = SeedAdvance(o)]
                   ELSE RepoCreate(op.user, store.seeds[op.i], SeedAdvance(o))
    /\ UNCHANGED notStore

(***************************************************************************)
(* Initial states and specifications                                       *)
(***************************************************************************)
SweepIdle == sw = IdleSweep

\* no Sanitize, client call or source operation is part of the harness
OthersIdle == san = IdleSan /\ call = IdleCall /\ store = IdleStore

KeysIdle == keys = IdleKeys

CacheInit ==
    /\ items = <<>>
    /\ lastSet = [k \in CacheKeys |-> NoSet]
    /\ lastGet = NoGet

LimiterInit(rpms) ==
    /\ limit \in {NewLimit(r) : r \in rpms}
    /\ requests = [u \in Users |-> <<>>]
    /\ mu = "free"
    /\ lpc = [g \in Goroutines |-> "idle"]
    /\ larg = [g \in Goroutines |-> 1]
    /\ admitted = [u \in Users |-> <<>>]
    /\ lastAllow = NoAllow

WMInit ==
    /\ facts = {}
    /\ sessions = {}
    /\ sessionFacts = <<>>
    /\ nextID = 1
    /\ exec = [e \in Execs |-> IdleExec]
    /\ wmDone = <<>>
    /\ entities = {}
    /\ sessionEntities = {}
    /\ lastMerge = NoMerge

SearchInit ==
    /\ fan = IdleFan
    /\ out = NoOut

\* a service without a critic has no critic configuration to vary
DepsChoices ==
    {d \in [maxRetries : 0..MaxCfgRetries, strictMode : BOOLEAN, critic : BOOLEAN,
            coordinator : BOOLEAN, worldModel : BOOLEAN] :
        ~d.critic => (d.maxRetries = 0 /\ ~d.strictMode)}

ProcInit(choices) ==
    /\ deps \in choices
    /\ cfg = [maxRetries  |-> NewCriticConfig(deps).maxRetries,
              strictMode  |-> NewCriticConfig(deps).strictMode,
              critic      |-> deps.critic,
              coordinator |-> deps.coordinator,
              worldModel  |-> deps.worldModel]
    /\ p = IdleProc
    /\ bg = NoBg
    /\ hist = NoHist

NoDeps == {[maxRetries |-> 0, strictMode |-> FALSE, critic |-> FALSE,
            coordinator |-> FALSE, worldModel |-> FALSE]}

InitCache ==
    now = 0 /\ scope = "cache" /\ CacheInit /\ LimiterInit({1}) /\ WMInit /\ SearchInit
    /\ ProcInit(NoDeps) /\ SweepIdle /\ KeysIdle /\ RepIdle /\ OthersIdle /\ CoordIdle /\ ReviewIdle

NextCache ==
    \/ \E k \in CacheKeys : CacheGet(k)
    \/ \E k \in CacheKeys, v \in CacheValues, ttl \in 0..MaxTTL : CacheSet(k, v, ttl)
    \/ \E k \in CacheKeys : CacheDelete(k)
    \/ CacheCleanupTick
    \/ Tick

SpecCache == InitCache /\ [][NextCache]_vars

InitLimiter ==
    /\ now = 0 /\ scope = "limiter" /\ CacheInit /\ LimiterInit(1..MaxRPM) /\ WMInit
    /\ SearchInit /\ ProcInit(NoDeps) /\ SweepIdle /\ KeysIdle /\ RepIdle /\ OthersIdle /\ CoordIdle /\ ReviewIdle

NextLimiter ==
    \/ \E g \in Goroutines, u \in Users : AllowCall(g, u)
    \/ \E g \in Goroutines : AllowLock(g)
    \/ \E g \in Goroutines : AllowBody(g)
    \/ LimiterCleanupTick
    \/ Tick

SpecLimiter == InitLimiter /\ [][NextLimiter]_vars

InitWorldSeq ==
    /\ now = 0 /\ scope = "worldseq" /\ CacheInit /\ LimiterInit({1}) /\ WMInit
    /\ SearchInit /\ ProcInit(NoDeps) /\ SweepIdle /\ KeysIdle /\ RepIdle /\ OthersIdle /\ CoordIdle /\ ReviewIdle

NextWorld ==
    \/ \E e \in Execs, u \in Users, ok \in BOOLEAN : ExtractStart(e, u, ok)
    \/ \E e \in Execs : ExtractLLMFail(e)
    \/ \E e \in Execs, fs \in FactLists : ExtractLLM(e, fs, <<>>)
    \/ \E e \in Execs, ok \in BOOLEAN : SaveFactFind(e, ok)
    \/ \E e \in Execs, ok \in BOOLEAN : SaveFactCreate(e, ok)
    \/ \E e \in Execs, ok \in BOOLEAN : SaveFactAttach(e, ok)
    \/ \E e \in Execs : ExtractDone(e)

\* ExtractAndStore calls made one after the other
SpecWorldSeq == InitWorldSeq /\ [][NextWorld]_vars

\* ExtractAndStore calls that overlap (Process starts one per request, in
\* the background), over extractions that hold entities
InitEntities ==
    /\ now = 0 /\ scope = "entities" /\ CacheInit /\ LimiterInit({1}) /\ WMInit
    /\ SearchInit /\ ProcInit(NoDeps) /\ SweepIdle /\ KeysIdle /\ RepIdle /\ OthersIdle /\ CoordIdle /\ ReviewIdle

NextEntities ==
    \/ \E e \in Execs, u \in Users, ok \in BOOLEAN : ExtractStart(e, u, ok)
    \/ \E e \in Execs : ExtractLLMFail(e)
    \/ \E e \in Execs, es \in EntityLists : ExtractLLM(e, <<>>, es)
    \/ \E e \in Execs, ok \in BOOLEAN : SaveEntityFind(e, ok)
    \/ \E e \in Execs, ok \in BOOLEAN : SaveEntityUpdate(e, ok)
    \/ \E e \in Execs, ok \in BOOLEAN : SaveEntityCreate(e, ok)
    \/ \E e \in Execs, ok \in BOOLEAN : SaveEntityAttach(e, ok)
    \/ \E e \in Execs : ExtractDone(e)

SpecEntities == InitEntities /\ [][NextEntities]_vars

\* ExtractAndStore calls that overlap, over extractions that hold facts and
\* a repository whose calls all succeed (the in-memory repository)
InitFacts ==
    /\ now = 0 /\ scope = "facts" /\ CacheInit /\ LimiterInit({1}) /\ WMInit
    /\ SearchInit /\ ProcInit(NoDeps) /\ SweepIdle /\ KeysIdle /\ RepIdle /\ OthersIdle /\ CoordIdle /\ ReviewIdle

NextFacts ==
    \/ \E e \in Execs, u \in Users : ExtractStart(e, u, TRUE)
    \/ \E e \in Execs : ExtractLLMFail(e)
    \/ \E e \in Execs, fs \in FactLists : ExtractLLM(e, fs, <<>>)
    \/ \E e \in Execs : SaveFactFind(e, TRUE)
    \/ \E e \in Execs : SaveFactCreate(e, TRUE)
    \/ \E e \in Execs : SaveFactAttach(e, TRUE)
    \/ \E e \in Execs : ExtractDone(e)

SpecFacts == InitFacts /\ [][NextFacts]_vars

\* cacheKey as a function: two argument pairs are drawn, the keys computed
InitKey ==
    /\ now = 0 /\ scope = "key" /\ CacheInit /\ LimiterInit({1}) /\ WMInit
    /\ SearchInit /\ ProcInit(NoDeps) /\ SweepIdle /\ RepIdle /\ OthersIdle /\ CoordIdle /\ ReviewIdle
    /\ keys \in {[IdleKeys EXCEPT !.x = a, !.y = b] : a, b \in KeyInputs}

NextKey == ComputeKeys

SpecKey == InitKey /\ [][NextKey]_vars

\* one Search call of the tavily client, under a context that is live or
\* already cancelled when the call is made
InitTavily ==
    /\ now = 0 /\ scope = "tavily" /\ CacheInit /\ LimiterInit({1}) /\ WMInit
    /\ SearchInit /\ ProcInit(NoDeps) /\ SweepIdle /\ KeysIdle /\ RepIdle /\ CoordIdle /\ ReviewIdle
    /\ san = IdleSan /\ store = IdleStore
    /\ call \in {[IdleCall EXCEPT !.ctxDone = c] : c \in BOOLEAN}

NextTavily ==
    \/ TavilySearch
    \/ \E x \in Exchanges : TavilyAttempt(x)
    \/ TavilyWaitElapsed
    \/ TavilyWaitCancelled
    \/ CallCtxCancel

SpecTavily == InitTavily /\ [][NextTavily]_vars

\* one CompleteWithSystem call of an LLM client; the gigachat client holds
\* no token, a valid one or a stale one when the call is made
InitLLM ==
    /\ now = 0 /\ scope = "llm" /\ CacheInit /\ LimiterInit({1}) /\ WMInit
    /\ SearchInit /\ ProcInit(NoDeps) /\ SweepIdle /\ KeysIdle /\ RepIdle /\ CoordIdle /\ ReviewIdle
    /\ san = IdleSan /\ store = IdleStore
    /\ call \in {[IdleCall EXCEPT !.ctxDone = c, !.token = t] :
                    c \in BOOLEAN, t \in {"none", "valid", "stale"}}

NextLLM ==
    \/ \E c \in LLMClients : LLMCall(c)
    \/ \E r \in RefreshOutcomes : GigaGetToken(r)
    \/ \E x \in LLMExchanges : LLMAttempt(x)
    \/ CallCtxCancel

\* an HTTP request made by the client returns (http.Client.Timeout), and the
\* calling goroutine runs on
LLMFairness ==
    /\ WF_vars(\E r \in RefreshOutcomes : GigaGetToken(r))
    /\ WF_vars(\E x \in LLMExchanges : LLMAttempt(x))

SpecLLM == InitLLM /\ [][NextLLM]_vars /\ LLMFairness

\* the source commands of the users, run by concurrent update goroutines
InitSources ==
    /\ now = 0 /\ scope = "sources" /\ CacheInit /\ LimiterInit({1}) /\ WMInit
    /\ SearchInit /\ ProcInit(NoDeps) /\ SweepIdle /\ KeysIdle /\ RepIdle /\ CoordIdle /\ ReviewIdle
    /\ san = IdleSan /\ call = IdleCall
    /\ store \in {[IdleStore EXCEPT !.seeds = l] : l \in SeedLists}

NextSources ==
    \/ \E o \in SourceOps, u \in Users, url \in AddURLs : SourceAdd(o, u, url)
    \/ \E o \in SourceOps, ok \in BOOLEAN : SourceAddCount(o, ok)
    \/ \E o \in SourceOps, ok \in BOOLEAN : SourceAddCreate(o, ok)
    \/ \E o \in SourceOps, u \in Users, id \in 1..MaxSourceID : SourceRemove(o, u, id)
    \/ \E o \in SourceOps, u \in Users : ImportSeed(o, u)
    \/ \E o \in SourceOps, ok \in BOOLEAN : ImportSeedExists(o, ok)
    \/ \E o \in SourceOps, ok \in BOOLEAN : ImportSeedCreate(o, ok)

SpecSources == InitSources /\ [][NextSources]_vars

\* Sanitize as a function: a text is drawn, Sanitize applied once and again
InitSanitize ==
    /\ now = 0 /\ scope = "sanitize" /\ CacheInit /\ LimiterInit({1}) /\ WMInit
    /\ SearchInit /\ ProcInit(NoDeps) /\ SweepIdle /\ KeysIdle /\ RepIdle /\ CoordIdle /\ ReviewIdle
    /\ san \in {[IdleSan EXCEPT !.x = t] : t \in SanTexts}
    /\ call = IdleCall /\ store = IdleStore

NextSanitize == SanitizeOnce \/ SanitizeTwice

SpecSanitize == InitSanitize /\ [][NextSanitize]_vars

InitSearch ==
    /\ now = 0 /\ scope = "search" /\ CacheInit /\ LimiterInit({1}) /\ WMInit
    /\ SearchInit /\ ProcInit(NoDeps) /\ SweepIdle /\ KeysIdle /\ RepIdle /\ OthersIdle /\ CoordIdle /\ ReviewIdle

QueryLists == UNION {[1..k -> Queries] : k \in 1..MaxQueries}

NextFanout ==
    \/ \E i \in 1..MaxQueries : SubCacheGet(i)
    \/ \E i \in 1..MaxQueries, list \in ProviderLists : SubProviderOK(i, list)
    \/ \E i \in 1..MaxQueries : SubProviderFail(i)
    \/ \E i \in 1..MaxQueries : SubSend(i)
    \/ Merge

NextSearch ==
    \/ \E qs \in QueryLists, m \in 1..MaxResultsArg : SearchCall(qs, m)
    \/ NextFanout

SpecSearch == InitSearch /\ [][NextSearch]_vars

\* searchWithCache called again and again over one cache, by requests whose
\* strategies differ in maxResults
InitBudget ==
    /\ now = 0 /\ scope = "budget" /\ CacheInit /\ LimiterInit({1}) /\ WMInit
    /\ SearchInit /\ ProcInit(NoDeps) /\ SweepIdle /\ KeysIdle /\ RepIdle /\ OthersIdle /\ CoordIdle /\ ReviewIdle

SpecBudget == InitBudget /\ [][NextSearch]_vars

\* every started goroutine is scheduled: a lookup that can be made is made,
\* a provider call returns (with a list, or with an error at the latest when
\* the search timeout passes), and g.Wait() returns once all have finished
FanoutFairness ==
    /\ \A i \in 1..MaxQueries : WF_vars(SubCacheGet(i))
    /\ \A i \in 1..MaxQueries :
          WF_vars(SubProviderFail(i) \/ \E list \in ProviderLists : SubProviderOK(i, list))
    /\ \A i \in 1..MaxQueries : WF_vars(SubSend(i))
    /\ WF_vars(Merge)

SpecFanoutLive == InitBudget /\ [][NextSearch]_vars /\ FanoutFairness

InitProcess ==
    /\ now = 0 /\ scope = "process" /\ CacheInit /\ LimiterInit({1}) /\ WMInit
    /\ SearchInit /\ ProcInit(DepsChoices) /\ SweepIdle /\ KeysIdle /\ RepIdle /\ OthersIdle /\ CoordIdle /\ ReviewIdle

NextProcess ==
    \/ \E t \in Texts, st \in Strategies : ProcessStart(t, st)
    \/ ProcessContext
    \/ \E o \in {"err", "none", "some"} : ProcessSources(o)
    \/ \E r \in ExpandOutcomes : ProcessExpand(r)
    \/ NextFanout
    \/ ProcessAfterSearch
    \/ \E o \in {"err", "empty", "answer"} : ProcessCoordinator(o)
    \/ \E ok \in BOOLEAN : ProcessAnalyze(ok)
    \/ \E ok \in BOOLEAN, r \in CriticResults : CriticReview(ok, r)
    \/ \E ok \in BOOLEAN : CriticImprove(ok)
    \/ ProcessRespond
    \/ \E o \in {"ok", "failed", "cancelled"} : ExtractionEnd(o)
    \/ CallerCancel
    \/ DeadlineFire

SpecProcess == InitProcess /\ [][NextProcess]_vars

\* a request that succeeded is repeated while the search provider is down:
\* a service without critic, coordinator and world model, whose source
\* repository and answer-writing LLM call keep working, under a caller that
\* does not cancel and a deadline that does not pass
InitRepeat ==
    /\ now = 0 /\ scope = "repeat" /\ CacheInit /\ LimiterInit({1}) /\ WMInit
    /\ SearchInit /\ ProcInit(NoDeps) /\ SweepIdle /\ KeysIdle /\ RepIdle /\ OthersIdle /\ CoordIdle /\ ReviewIdle

NextRepeat ==
    \/ \E st \in Strategies : ~st.useCritic /\ ProcessStart(<<"q", "1">>, st)
    \/ ProcessContext
    \/ ProcessSources("some")
    \/ \E r \in ExpandOutcomes : ProcessExpand(r)
    \/ \E i \in 1..MaxQueries : SubCacheGet(i)
    \/ \E i \in 1..MaxQueries, list \in ProviderLists : rep.call = 1 /\ SubProviderOK(i, list)
    \/ \E i \in 1..MaxQueries : SubProviderFail(i)
    \/ \E i \in 1..MaxQueries : SubSend(i)
    \/ Merge
    \/ ProcessAfterSearch
    \/ ProcessCoordinator("answer")
    \/ ProcessAnalyze(TRUE)
    \/ ProcessRespond
    \/ ProcessAgain
    \/ Tick

SpecRepeat == InitRepeat /\ [][NextRepeat]_vars

InitCoordinator ==
    /\ now = 0 /\ scope = "coordinator" /\ CacheInit /\ LimiterInit({1}) /\ WMInit
    /\ SearchInit /\ ProcInit(NoDeps) /\ SweepIdle /\ KeysIdle /\ RepIdle /\ OthersIdle /\ ReviewIdle
    /\ agents \in SeqsUpTo(ScoreTenths, MaxRegistered)
    /\ co = IdleCoord

NextCoordinator ==
    \/ \E k \in StrategyKinds, ok \in BOOLEAN : CoordProcess(k, ok)
    \/ \E a \in 1..MaxRegistered, ok \in BOOLEAN : AgentReturn(a, ok)
    \/ \E ok \in BOOLEAN : CoordJoin(ok)

SpecCoordinator == InitCoordinator /\ [][NextCoordinator]_vars

InitCritic ==
    /\ now = 0 /\ scope = "critic" /\ CacheInit /\ LimiterInit({1}) /\ WMInit
    /\ SearchInit /\ ProcInit(NoDeps) /\ SweepIdle /\ KeysIdle /\ RepIdle /\ OthersIdle /\ CoordIdle /\ ReviewIdle

NextCritic ==
    \/ \E c \in BOOLEAN, ok \in BOOLEAN : Review(c, ok)
    \/ ReviewReturn

SpecCritic == InitCritic /\ [][NextCritic]_vars

(***************************************************************************)
(* C3: for one principal, every window of the limiter's window length      *)
(* (the ticks t-Window+1 .. t) holds at most `limit` Allow calls that      *)
(* returned true, under every interleaving of concurrent Allow calls.      *)
(***************************************************************************)
AdmittedIn(u, t) ==
    Cardinality({i \in DOMAIN admitted[u] :
                    admitted[u][i] > t - Window /\ admitted[u][i] <= t})

RateLimitWindow ==
    \A u \in Users : \A t \in Times : AdmittedIn(u, t) <= limit

\* a full window: `limit` admissions, then a denial, for the same user
RateLimitWindowWitness ==
    \E u \in Users :
        /\ lastAllow.called /\ lastAllow.user = u /\ ~lastAllow.ok
        /\ AdmittedIn(u, now) = limit
        /\ Len(admitted[u]) > limit

(***************************************************************************)
(* C4: a Get(k) after Set(k,v,ttl), with no Set or Delete on k in          *)
(* between, returns v while the clock is before the expiry and a miss once *)
(* the clock is past it, swept or not; a hit is never past the expiry.     *)
(***************************************************************************)
CacheGetAfterSet ==
    lastGet.called =>
        LET s == lastGet.last
            t == lastGet.at
        IN  /\ (s.set /\ t < s.expiresAt) => (lastGet.hit /\ lastGet.value = s.value)
            /\ (s.set /\ t > s.expiresAt) => ~lastGet.hit
            /\ lastGet.hit => (s.set /\ t <= s.expiresAt /\ lastGet.value = s.value)

\* a Get past the expiry of an entry the sweep has not removed
CacheGetAfterSetWitness ==
    /\ lastGet.called /\ lastGet.at = now /\ ~lastGet.hit
    /\ lastGet.last.set
    /\ lastGet.at > lastGet.last.expiresAt
    /\ lastGet.key \in DOMAIN items

(***************************************************************************)
(* C5: after two sequential ExtractAndStore calls for one user that both   *)
(* saved the same fact content, the repository holds exactly one fact with *)
(* that content for the user, and no session has a fact attached twice.    *)
(***************************************************************************)
Occurrences(sq, x) == Cardinality({i \in DOMAIN sq : sq[i] = x})

FactDedup ==
    /\ \A i, j \in DOMAIN wmDone :
          (i < j /\ wmDone[i].user = wmDone[j].user) =>
              \A c \in wmDone[i].saved \cap wmDone[j].saved :
                  Cardinality(FactsWith(wmDone[i].user, c)) = 1
    /\ \A sid \in DOMAIN sessionFacts : \A f \in facts :
          Occurrences(sessionFacts[sid], f.id) <= 1

(***************************************************************************)
(* The sweep goroutine of the cache: a cache is created, used and stopped. *)
(* A goroutine that can leave its select (stopChan closed or the context   *)
(* done) is scheduled and does so; a Stop call that can take the mutex     *)
(* takes it and runs to its return.                                        *)
(***************************************************************************)
InitSweep ==
    /\ now = 0 /\ scope = "sweep" /\ CacheInit /\ LimiterInit({1}) /\ WMInit
    /\ SearchInit /\ ProcInit(NoDeps) /\ CoordIdle /\ ReviewIdle
    /\ sw \in {[IdleSweep EXCEPT !.ctx = c] : c \in {"background", "cancellable"}}
    /\ KeysIdle /\ RepIdle /\ OthersIdle

NextSweep ==
    \/ Tick
    \/ CacheSet("k1", <<>>, 1)
    \/ CacheCleanupTick
    \/ \E g \in Stoppers : CacheStopCall(g)
    \/ \E g \in Stoppers : CacheStopLock(g)
    \/ \E g \in Stoppers : CacheStopBody(g)
    \/ CacheCtxCancel
    \/ CacheSweepExit

SweepFairness ==
    /\ WF_vars(CacheSweepExit)
    /\ \A g \in Stoppers : WF_vars(CacheStopLock(g)) /\ WF_vars(CacheStopBody(g))

SpecSweep == InitSweep /\ [][NextSweep]_vars /\ SweepFairness

\* a limiter is created, used by one goroutine and released; its sweep
\* goroutine is scheduled whenever its ticker fires
InitLimiterSweep ==
    /\ now = 0 /\ scope = "limsweep" /\ CacheInit /\ LimiterInit(1..MaxRPM) /\ WMInit
    /\ SearchInit /\ ProcInit(NoDeps) /\ SweepIdle /\ KeysIdle /\ RepIdle /\ OthersIdle /\ CoordIdle /\ ReviewIdle

NextLimiterSweep ==
    \/ Tick
    \/ \E u \in Users : AllowCall("g1", u)
    \/ AllowLock("g1")
    \/ AllowBody("g1")
    \/ LimiterCleanupTick
    \/ LimiterRelease

SpecLimiterSweep ==
    InitLimiterSweep /\ [][NextLimiterSweep]_vars /\ WF_vars(LimiterCleanupTick)

(***************************************************************************)
(* C2: the list returned by the search fan-out has no two results with the *)
(* same URL, is ordered by non-increasing score, and has at most           *)
(* maxResults elements.                                                    *)
(***************************************************************************)
UniqueURLs(rs) == \A i, j \in DOMAIN rs : i # j => rs[i].URL # rs[j].URL

SearchDedupSorted ==
    out.valid =>
        /\ UniqueURLs(out.results)
        /\ NonIncreasing(out.results)
        /\ Len(out.results) <= fan.maxResults

\* a merge that had to drop a repeated URL, reorder and cut
SearchDedupSortedWitness ==
    /\ out.valid
    /\ ~UniqueURLs(Flatten(fan.chan))
    /\ ~NonIncreasing(Dedup(fan.chan))
    /\ Len(Dedup(fan.chan)) > fan.maxResults
    /\ Len(out.results) = fan.maxResults

(***************************************************************************)
(* C1: for every configured maxRetries in 0..10, one run of the critic     *)
(* loop makes at most maxRetries+1 Review calls and at most maxRetries     *)
(* improve calls (and so terminates).                                      *)
(***************************************************************************)
CriticLoopBound ==
    /\ hist.review <= deps.maxRetries + 1
    /\ hist.improve <= deps.maxRetries

(***************************************************************************)
(* C6: cancelling the caller's context, or the request deadline, after     *)
(* Process has returned does not cancel the background ExtractAndStore:    *)
(* the context it runs on is never done.                                   *)
(***************************************************************************)
ExtractionDetached ==
    /\ bg.state # "cancelled"
    /\ bg.state = "running" => ~CtxDone(bg.ctx)

\* the caller cancelled after the return and the extraction still completed
ExtractionDetachedWitness ==
    /\ p.pc = "done" /\ p.lateCancel /\ CtxDone("request")
    /\ bg.state = "ok"

(***************************************************************************)
(* C7: whatever the background extraction does and whenever it ends, the   *)
(* response and the nil error Process returned stay what they were.        *)
(***************************************************************************)
ExtractionLeavesResponse ==
    [][bg.state = "running" =>
          (p'.response = p.response /\ p'.err = p.err
           /\ p'.hasResponse = p.hasResponse)]_vars

\* a response was returned and the extraction then failed
ExtractionLeavesResponseWitness ==
    /\ p.hasResponse /\ p.err = "none"
    /\ bg.state = "failed"

(***************************************************************************)
(* C8: in every QueryResponse, Sources[i].Marker is "[S{i+1}]" for the     *)
(* 0-based index i: markers are 1-indexed and contiguous.                  *)
(***************************************************************************)
MarkerText == <<"[S1]", "[S2]", "[S3]", "[S4]", "[S5]", "[S6]", "[S7]", "[S8]">>

MarkersContiguous ==
    p.hasResponse =>
        /\ Len(p.response.Sources) = Len(p.results)
        /\ \A k \in DOMAIN p.response.Sources :
              p.response.Sources[k].Marker = MarkerText[k]

MarkersContiguousWitness ==
    /\ p.hasResponse
    /\ Len(p.response.Sources) >= 2

(***************************************************************************)
(* C9 as stated: once at least one result was accumulated, failed          *)
(* sub-queries do not make Process fail at the search stage, and           *)
(* ErrNoResults is returned only when nothing was accumulated.             *)
(***************************************************************************)
SubQueryFailureTolerated ==
    /\ (p.pc = "done" /\ hist.subFailed /\ Len(p.results) >= 1)
          => p.failedAt # "search"
    /\ p.err = "ErrNoResults" => Len(p.results) = 0

(***************************************************************************)
(* C9 amended: with at least one result accumulated, Process fails at the  *)
(* search stage only with the error of a request context that is cancelled *)
(* or past its deadline when the fan-out returns; ErrNoResults is returned *)
(* only when nothing was accumulated.                                      *)
(***************************************************************************)
SubQueryFailureToleratedLiveCtx ==
    /\ (p.pc = "done" /\ p.failedAt = "search" /\ Len(p.results) >= 1)
          => p.err \in {"canceled", "deadlineExceeded"}
    /\ p.err = "ErrNoResults" => (Len(p.results) = 0 /\ p.failedAt = "search")

\* a sub-query failed, another delivered, and Process went on to the analysis
SubQueryFailureToleratedWitness ==
    /\ hist.subFailed
    /\ p.pc = "coord"
    /\ Len(p.results) >= 1

(***************************************************************************)
(* C10: when a Review call or an improve call fails, the critic loop       *)
(* returns the answer current at that moment (the latest successfully      *)
(* improved answer, or the draft) and Process returns it successfully.     *)
(***************************************************************************)
CriticErrorKeepsCurrent ==
    hist.exit \in {"reviewErr", "improveErr"} =>
        /\ p.pc \in {"respond", "done"}
        /\ p.answer = hist.latest
        /\ p.answer # NoAnswer
        /\ p.pc = "done" =>
              (p.err = "none" /\ p.hasResponse /\ p.response.Text = hist.latest)

\* an improve call failed after an earlier one had succeeded
CriticErrorKeepsCurrentWitness ==
    /\ hist.exit = "improveErr"
    /\ hist.improve >= 2
    /\ p.pc = "done"
    /\ p.response.Text = Answer("improve", 1)

(***************************************************************************)
(* C11: for every coordinator request the number of agents reported in     *)
(* AgentsUsed (and of responses collected on the way) is at most the       *)
(* strategy's quota: 1 for quick, 2 for standard, 4 for deep, 2 otherwise. *)
(***************************************************************************)
AgentQuota ==
    LET quota == CASE co.kind = "quick"    -> 1
                   [] co.kind = "standard" -> 2
                   [] co.kind = "deep"     -> 4
                   [] OTHER                -> 2
    IN  co.pc # "idle" => (Len(co.used) <= quota /\ Len(co.results) <= quota)

\* a quick request over several qualifying agents that used exactly one
AgentQuotaWitness ==
    /\ co.pc = "done" /\ co.err = "none" /\ co.kind = "quick"
    /\ Len(co.used) = 1
    /\ Cardinality({a \in DOMAIN agents : agents[a] >= 3}) > 1

(***************************************************************************)
(* C12: selectAgents returns, in descending score order, the maxAgents     *)
(* highest-scoring agents among those scoring >= 0.3, or among all the     *)
(* registered agents when none scores >= 0.3 (all of them when there are   *)
(* fewer than maxAgents).                                                  *)
(***************************************************************************)
AgentSelection ==
    co.pc = "running" =>
        LET sel    == co.selected
            chosen == {sel[k] : k \in DOMAIN sel}
            good   == {a \in DOMAIN agents : agents[a] >= 3}
            pool   == IF good # {} THEN good ELSE DOMAIN agents
            quota  == maxAgentsFor(co.kind)
        IN  /\ Cardinality(chosen) = Len(sel)
            /\ chosen \subseteq pool
            /\ Len(sel) = IF Cardinality(pool) < quota THEN Cardinality(pool) ELSE quota
            /\ \A a \in chosen, b \in pool \ chosen : agents[a] >= agents[b]
            /\ \A i, j \in DOMAIN sel : i < j => agents[sel[i]] >= agents[sel[j]]

\* an agent scoring exactly 0.3 is selected while a qualifying agent and an
\* agent below the threshold are left out
AgentSelectionWitness ==
    /\ co.pc = "running"
    /\ \E k \in DOMAIN co.selected : agents[co.selected[k]] = 3
    /\ \E b \in DOMAIN agents : agents[b] >= 3 /\ \A k \in DOMAIN co.selected : co.selected[k] # b
    /\ \E b \in DOMAIN agents : agents[b] < 3

(***************************************************************************)
(* C13: when exactly one agent response is collected, the coordinator's    *)
(* final answer is that response's content and synthesize is not called.   *)
(***************************************************************************)
SinglePassthrough ==
    (co.pc = "done" /\ Len(co.results) = 1) =>
        /\ co.err = "none"
        /\ co.answer = co.results[1].Content
        /\ co.synth = 0

\* several agents selected, all but one failed
SinglePassthroughWitness ==
    /\ co.pc = "done" /\ Len(co.results) = 1 /\ Len(co.selected) > 1
    /\ co.answer = "content" \o ToString(co.results[1].AgentName)

(***************************************************************************)
(* C14: in the parallel run every selected agent runs to completion,       *)
(* whatever its siblings did, and the collected responses hold the         *)
(* response of every agent that succeeded exactly once and none of an      *)
(* agent that failed.                                                      *)
(***************************************************************************)
SiblingsUnaffected ==
    /\ co.pc = "done" =>
          \A a \in DOMAIN co.status : co.status[a] \in {"ok", "failed"}
    /\ \A a \in DOMAIN co.status :
          Cardinality({k \in DOMAIN co.results : co.results[k] = AgentResponse(a)})
              = IF co.status[a] = "ok" THEN 1 ELSE 0
    /\ \A k \in DOMAIN co.results : co.results[k].AgentName \in DOMAIN co.status

\* the first response collected is not from the first agent selected, and
\* another agent failed
SiblingsUnaffectedWitness ==
    /\ co.pc = "done" /\ Len(co.results) >= 2
    /\ \E a \in DOMAIN co.status : co.status[a] = "failed"
    /\ co.results[1].AgentName # co.selected[1]

(***************************************************************************)
(* C15: with a coordinator wired, a non-empty coordinator answer is        *)
(* adopted and analyze is not called; after a coordinator error or an      *)
(* empty answer analyze is called exactly once and its output is adopted.  *)
(***************************************************************************)
CoordinatorFallback ==
    /\ hist.analyze <= 1
    /\ hist.coordOut = "answer" =>
          /\ hist.analyze = 0 /\ p.pc # "analyze"
          /\ hist.improve = 0 => p.answer = Answer("coordinator", 0)
    /\ (hist.coordOut \in {"err", "empty"} /\ p.pc # "analyze") =>
          /\ hist.analyze = 1
          /\ (hist.improve = 0 /\ ~hist.analyzeErr) => p.answer = Answer("analyze", 0)

\* the coordinator returned an empty answer and the response carries the
\* output of analyze
CoordinatorFallbackWitness ==
    /\ hist.coordOut = "empty" /\ hist.coordinator = 1 /\ hist.analyze = 1
    /\ p.hasResponse /\ p.response.Text = Answer("analyze", 0)

(***************************************************************************)
(* C16: if the analyze LLM call fails, Process returns an error and no     *)
(* QueryResponse.                                                          *)
(***************************************************************************)
AnalyzeFailureFatal ==
    hist.analyzeErr => (p.pc = "done" /\ p.err # "none" /\ ~p.hasResponse)

\* analyze failed after the coordinator had failed too
AnalyzeFailureFatalWitness ==
    hist.analyzeErr /\ hist.coordOut = "err" /\ p.pc = "done" /\ p.err = "llmErr"

ExpansionNeverFails ==
    /\ p.failedAt # "expand"
    /\ p.pc = "expand" => hist.expand = "none"
    /\ (p.pc = "search" /\ fan.active) =>
          /\ hist.expand # "none"
          /\ Len(fan.queries) >= 1 /\ Len(fan.queries) <= p.strategy.maxQueries
          /\ hist.expand \in {"err", "empty", "malformed", "emptyList"} =>
                fan.queries = <<p.text>>

\* an over-long list was cut to maxQueries
ExpansionNeverFailsWitness ==
    /\ p.pc = "search" /\ fan.active /\ hist.expand = "overlong"
    /\ Len(fan.queries) = p.strategy.maxQueries

(***************************************************************************)
(* C20 as stated: when the critic's LLM output cannot be parsed, Review    *)
(* returns no error and the result approved = true,                        *)
(* issues = ["critic_parse_failed"], confidence = 0.3.                     *)
(***************************************************************************)
CriticParseFailedLiteral ==
    (rv.pc = "done" /\ rv.parseErr) =>
        /\ rv.err = "none"
        /\ rv.result.Approved
        /\ rv.result.Issues = <<"critic_parse_failed">>
        /\ rv.result.Confidence = 3

(***************************************************************************)
(* C20, amended: when json.Unmarshal of the text extractJSON cut out of    *)
(* the critic's LLM output fails, Review returns no error and the result   *)
(* approved = true, confidence = 0.3, with the single issue                *)
(* "critic_parse_failed: could not parse LLM response".                    *)
(***************************************************************************)
CriticParseFailedTolerant ==
    (rv.pc = "done" /\ rv.parseErr) =>
        /\ rv.err = "none"
        /\ rv.result.Approved
        /\ Len(rv.result.Issues) = 1
        /\ rv.result.Issues[1] = "critic_parse_failed" \o ": could not parse LLM response"
        /\ rv.result.Suggestions = <<>>
        /\ rv.result.Confidence = 3

\* an output whose first brace group is not JSON although a well-formed
\* object follows it
CriticParseFailedTolerantWitness ==
    /\ rv.pc = "done" /\ rv.parseErr /\ rv.err = "none"
    /\ rv.response = <<"{", "x", "}", "{", "}">>
    /\ rv.result.Approved /\ rv.result.Confidence = 3

(***************************************************************************)
(* C21: when the critic loop ends on an approval after k rejected reviews  *)
(* (k <= maxRetries), it has made exactly k+1 Review calls and exactly k   *)
(* improve calls, and the answer it returns is the output of the k-th      *)
(* improve call; for k = 1 on the analysis path the whole request has made *)
(* exactly 2 critic calls and 3 LLM calls (expand, analyze, improve).      *)
(***************************************************************************)
CriticRejectedThenApproved ==
    hist.exit = "approved" =>
        /\ hist.review = hist.improve + 1
        /\ hist.improve <= cfg.maxRetries
        /\ (hist.improve >= 1 /\ p.err = "none") =>
              p.answer = Answer("improve", hist.improve)
        /\ (hist.improve >= 1 /\ p.hasResponse) =>
              p.response.Text = Answer("improve", hist.improve)
        /\ (hist.improve = 1 /\ hist.analyze = 1) =>
              (hist.review = 2 /\ hist.llm = 3)

\* one rejection, then an approval, on the analysis path
CriticRejectedThenApprovedWitness ==
    /\ hist.exit = "approved" /\ hist.improve = 1 /\ hist.analyze = 1
    /\ hist.review = 2 /\ hist.llm = 3
    /\ p.pc = "done" /\ p.hasResponse
    /\ p.response.Text = Answer("improve", 1)

(***************************************************************************)
(* C23: a call Allow(u) returns true exactly when fewer than `limit` of    *)
(* u's recorded timestamps lie within the window (after now - Window), and *)
(* it records the current time exactly when it returns true; the record of *)
(* no other user changes.                                                  *)
(***************************************************************************)
InWindow(u) ==
    Cardinality({i \in DOMAIN requests[u] : requests[u][i] > now - Window})

AllowDecision ==
    [][\A g \in Goroutines :
          (lpc[g] = "held" /\ lpc'[g] = "idle") =>
              LET u == larg[g]
              IN  /\ lastAllow'.called /\ lastAllow'.user = u
                  /\ lastAllow'.ok <=> (InWindow(u) < limit)
                  /\ Occurrences(requests'[u], now) =
                        Occurrences(requests[u], now) + (IF lastAllow'.ok THEN 1 ELSE 0)
                  /\ Len(requests'[u]) = InWindow(u) + (IF lastAllow'.ok THEN 1 ELSE 0)
                  /\ \A v \in Users \ {u} : requests'[v] = requests[v]]_vars

\* a denied call at a time when the user's window is full of earlier
\* admissions: nothing was recorded for the current time
AllowDecisionWitness ==
    /\ lastAllow.called /\ ~lastAllow.ok
    /\ Len(requests[lastAllow.user]) = limit
    /\ InWindow(lastAllow.user) = limit
    /\ Occurrences(requests[lastAllow.user], now) = 0
    /\ Len(admitted[lastAllow.user]) >= limit

(***************************************************************************)
(* C27: no stage after the final rank/truncate step of the fan-out         *)
(* reorders, adds or removes results: the source that an agent of the      *)
(* coordinator, analyze, the critic or improveAnswer was given under the   *)
(* marker [Sn] is the result that Sources[n-1] (here Sources[n]) of the    *)
(* QueryResponse refers to, under the same marker.                         *)
(***************************************************************************)
SourcesNeverReshuffled ==
    /\ \A g \in hist.given :
          /\ Len(g[2]) = Len(p.results)
          /\ \A n \in DOMAIN g[2] :
                g[2][n].URL = p.results[n].URL /\ g[2][n].Marker = MarkerText[n]
    /\ p.hasResponse =>
          \A g \in hist.given :
              /\ Len(g[2]) = Len(p.response.Sources)
              /\ \A n \in DOMAIN g[2] :
                    /\ g[2][n].URL = p.response.Sources[n].URL
                    /\ g[2][n].Marker = p.response.Sources[n].Marker

\* a response with two distinct sources after the coordinator, analyze,
\* the critic and improveAnswer were all given the results
SourcesNeverReshuffledWitness ==
    /\ p.hasResponse /\ Len(p.response.Sources) >= 2
    /\ p.response.Sources[1].URL # p.response.Sources[2].URL
    /\ {g[1] : g \in hist.given} = {"coordinator", "analyze", "critic", "improve"}

(***************************************************************************)
(* C25: in the list returned by the search fan-out, two results of equal   *)
(* score appear in the order in which their URLs were first seen during    *)
(* the merge (the sort by descending score is stable).                     *)
(***************************************************************************)
FirstSeen(rs, url) == CHOOSE i \in DOMAIN rs : rs[i].URL = url

StableResultOrder ==
    out.valid =>
        LET merged == Dedup(fan.chan)
        IN  \A i, j \in DOMAIN out.results :
                (i < j /\ out.results[i].Score = out.results[j].Score) =>
                    FirstSeen(merged, out.results[i].URL) <
                        FirstSeen(merged, out.results[j].URL)

(***************************************************************************)
(* C26: two registered agents with the same CanHandle score are selected   *)
(* in registration order, and when the cut to maxAgents falls between them *)
(* the one registered earlier is kept.                                     *)
(***************************************************************************)
AgentTieOrder ==
    co.pc = "running" =>
        LET sel    == co.selected
            chosen == {sel[k] : k \in DOMAIN sel}
        IN  /\ \A i, j \in DOMAIN sel :
                  (i < j /\ agents[sel[i]] = agents[sel[j]]) => sel[i] < sel[j]
            /\ \A a \in chosen, b \in DOMAIN agents \ chosen :
                  agents[a] = agents[b] => a < b

(***************************************************************************)
(* C29: after the stop/shutdown signal the rate limiter's background sweep *)
(* goroutine, started by ratelimit.New, terminates.                        *)
(***************************************************************************)
LimiterSweepTerminates == sw.released ~> (sw.limSweeper = "exited")

(***************************************************************************)
(* C30: once Stop has been called for the first time, or the context the   *)
(* cache was created with is cancelled, the cache's sweep goroutine        *)
(* eventually exits; every further Stop call, also a concurrent one,       *)
(* returns, changes nothing and does not panic.                            *)
(***************************************************************************)
CacheStopIdempotent ==
    /\ (sw.calls >= 1 \/ sw.ctxDone) ~> (sw.sweeper = "exited")
    /\ \A g \in Stoppers : (sw.spc[g] # "idle") ~> (sw.spc[g] = "idle")
    /\ [](~sw.panicked)
    /\ [][\A g \in Stoppers :
             (sw.spc[g] = "held" /\ sw'.spc[g] = "idle" /\ sw.stopped) =>
                 /\ [sw' EXCEPT !.spc = sw.spc, !.mu = sw.mu] = sw
                 /\ UNCHANGED <<now, cacheVars>>]_vars

\* MaxStops calls of Stop, made from two goroutines, have all returned and
\* the sweep goroutine is gone
CacheStopIdempotentWitness ==
    /\ sw.calls = MaxStops /\ \A g \in Stoppers : sw.spc[g] = "idle"
    /\ sw.stopped /\ sw.stopChan = "closed" /\ ~sw.panicked
    /\ sw.sweeper = "exited"
    /\ items # <<>>

(***************************************************************************)
(* C28: when ExtractAndStore ingests an entity whose (user, name) is       *)
(* already stored, no second entity of that name is created, the stored    *)
(* attribute map becomes the previous map overridden per key by the        *)
(* incoming attributes (absent keys keep their value), and lastSeenAt is   *)
(* not earlier than before.                                                *)
(***************************************************************************)
EntityMerge ==
    /\ \A x, y \in entities : (x.user = y.user /\ x.name = y.name) => x = y
    /\ lastMerge.called =>
          /\ lastMerge.count = 1
          /\ DOMAIN lastMerge.after = DOMAIN lastMerge.before \cup DOMAIN lastMerge.incoming
          /\ \A k \in DOMAIN lastMerge.incoming : lastMerge.after[k] = lastMerge.incoming[k]
          /\ \A k \in DOMAIN lastMerge.before \ DOMAIN lastMerge.incoming :
                lastMerge.after[k] = lastMerge.before[k]
          /\ lastMerge.seenAfter >= lastMerge.seenBefore

(***************************************************************************)
(* C24: the cache key is a function of the normalized query (lower-cased,  *)
(* trimmed, whitespace runs collapsed) and the sorted domain list, its     *)
(* digest input being the normalized query, then ",", then the sorted      *)
(* domains: two calls with equal normalized queries and equal domain sets  *)
(* get the same key, and two calls that differ in either get different     *)
(* digest inputs.                                                          *)
(***************************************************************************)
SameKeyInputs ==
    /\ normalizeQuery(keys.x.query) = normalizeQuery(keys.y.query)
    /\ {keys.x.domains[i] : i \in DOMAIN keys.x.domains} =
          {keys.y.domains[i] : i \in DOMAIN keys.y.domains}

CacheKeyFunction ==
    keys.rx.done =>
        /\ keys.rx.data = normalizeQuery(keys.x.query) \o <<",">>
                             \o Join(SortStrings(keys.x.domains), <<",">>)
        /\ SameKeyInputs => keys.rx.key = keys.ry.key
        /\ ~SameKeyInputs => keys.rx.data # keys.ry.data

\* the lists a fan-out over the given result lists can return
MergesOf(lists, maxResults) ==
    {Truncate(sorted, maxResults) : sorted \in UNION {SortByScore(Dedup(l)) : l \in Perms(lists)}}

DistinctKeys(queries) ==
    \A i, j \in DOMAIN queries :
        i # j => cacheKey(queries[i], Domains) # cacheKey(queries[j], Domains)

RepeatReturned == rep.call = 2 /\ p.pc = "done"

\* C22 as stated: once a Process call has succeeded, a second call with the
\* same text and source domains made before the cached entries expire
\* succeeds although every provider call fails, with sources ranked from the
\* lists the first call merged, and no sub-query with an unexpired entry
\* goes to the provider
RepeatServedFromCache ==
    /\ ~rep.late => ~rep.hitProvider
    /\ (RepeatReturned /\ ~rep.late) =>
          /\ p.err = "none" /\ p.hasResponse
          /\ p.results \in MergesOf(rep.lists, p.strategy.maxResults)
          /\ p.response.Sources = toSourceRefs(p.results, p.trustMap)

\* C22 amended: the same, for a second call whose query expansion yields
\* the sub-queries of the first call, with pairwise different cache keys
RepeatSameQueriesServedFromCache ==
    /\ ~rep.late => ~rep.hitProvider
    /\ (RepeatReturned /\ ~rep.late /\ rep.again = rep.queries /\ DistinctKeys(rep.queries)) =>
          /\ p.err = "none" /\ p.hasResponse
          /\ p.results \in MergesOf(rep.lists, p.strategy.maxResults)
          /\ p.response.Sources = toSourceRefs(p.results, p.trustMap)

\* the second call has returned a response built from two cached lists
\* while the provider was down
RepeatServedFromCacheWitness ==
    /\ RepeatReturned /\ ~rep.late /\ rep.again = rep.queries
    /\ Len(rep.queries) = 2 /\ DistinctKeys(rep.queries)
    /\ Cardinality(rep.cached) = 2
    /\ p.err = "none" /\ p.hasResponse /\ p.results # <<>>
\* C37: a review whose LLM output could not be parsed counts as an approval:
\* the loop does not go on to an improve call for it
UnparsableReviewApproves == hist.unparsed => p.pc # "improve"
\* C40: the background extraction is started exactly once for a request that
\* returns a response when a world model is wired, never for a request that
\* returns an error or while Process is still running, and it is handed the
\* answer of the response, the latest answer produced
ExtractionStartedOnce ==
    /\ bg.starts <= 1
    /\ (p.pc = "done" /\ p.hasResponse /\ cfg.worldModel) =>
          /\ bg.starts = 1
          /\ bg.answer = p.response.Text
          /\ bg.answer = hist.latest
    /\ (p.pc = "done" /\ ~p.hasResponse) => bg.starts = 0
    /\ p.pc # "done" => bg.starts = 0
    /\ ~cfg.worldModel => bg.starts = 0

\* a response whose answer the critic loop revised has been returned and the
\* extraction runs on the revised answer
ExtractionStartedOnceWitness ==
    /\ p.pc = "done" /\ p.hasResponse /\ cfg.worldModel
    /\ hist.improve >= 1 /\ p.response.Text.src = "improve"
    /\ bg.starts = 1 /\ bg.answer = p.response.Text
\* C36: whatever ExtractAndStore calls for one user overlap, the repository
\* never holds two facts of the same content for that user
ConcurrentFactDedup ==
    \A u \in Users : \A c \in FactContents : Cardinality(FactsWith(u, c)) <= 1
\* C38: a list served from the cache was fetched from the provider under the
\* maxResults of the request it is served to
HitUnderSameBudget == ~rep.otherBudget
\* C39: a fan-out that was started returns, every sub-query goroutine
\* having finished by then (none is left waiting to hand over its list)
FanoutCompletes ==
    /\ fan.active ~> (out.valid /\ \A i \in DOMAIN fan.sub : fan.sub[i] = "done")
    /\ [][(fan.active /\ ~fan'.active) => \A i \in DOMAIN fan.sub : fan.sub[i] = "done"]_vars
    /\ [](fan.active => Len(fan.chan) + Cardinality(fan.failed)
                           = Cardinality({i \in DOMAIN fan.sub : fan.sub[i] = "done"}))

\* a fan-out over two sub-queries, one failed and one delivering, has returned
FanoutCompletesWitness ==
    /\ out.valid /\ ~fan.active
    /\ Len(fan.queries) = 2 /\ Cardinality(fan.failed) = 1 /\ Len(fan.chan) = 1
\* C35: Sanitize applied to its own result changes nothing, and a sanitized
\* text has no leading or trailing whitespace and at most MaxQueryLength bytes
SanitizeIdempotent ==
    /\ san.pc = "twice" => san.twice = san.once
    /\ san.pc # "idle" => /\ TrimSpace(san.once) = san.once
                          /\ Len(san.once) <= MaxQueryLength
IsPrefix(a, b) == Len(a) <= Len(b) /\ a = SubSeq(b, 1, Len(a))

\* the attempts, waits and results of one Search call
SearchRetryShape ==
    /\ call.attempts <= 4
    /\ IsPrefix(call.waits, <<1, 2, 4>>)
    /\ Len(call.waits) \in {call.attempts - 1, call.attempts}
    /\ call.pc = "wait" => call.last \in {"netErr", "readErr", "500", "503"}
    /\ call.attempts > 1 => call.lastErr \in {"netErr", "readErr", "500", "503"}
    /\ call.last = "401" => (call.pc = "done" /\ call.result = "ErrUnauthorized")
    /\ call.last = "429" => (call.pc = "done" /\ call.result = "ErrRateLimit")
    /\ call.last = "400" => (call.pc = "done" /\ call.result = "ErrInvalidRequest")
    /\ (call.pc = "attempt" /\ call.ctxDone /\ call.attempt > 0) => Len(call.waits) = call.attempt
    /\ (call.pc = "done" /\ call.attempts = 4 /\ call.last \in {"netErr", "readErr", "500", "503"}) =>
          (call.result = "ErrSearchFailed" /\ call.wraps = call.last)

\* C32: one Search call makes at most 4 HTTP attempts, waits 1s, 2s, 4s
\* between them, retries only after a network error or a 5xx status, ends at
\* once on 401, 429 and 400, goes from no wait to a further attempt once the
\* context is cancelled, and returns an error wrapping ErrSearchFailed when
\* the retries are exhausted
SearchRetryBounded ==
    /\ []SearchRetryShape
    /\ [][(call.pc = "wait" /\ call.ctxDone) => call'.pc # "attempt"]_vars

\* the fourth attempt has failed with a server error after waits of 1s, 2s, 4s
SearchRetryBoundedWitness ==
    /\ call.client = "tavily" /\ call.pc = "done" /\ call.attempts = 4
    /\ call.waits = <<1, 2, 4>> /\ call.last = "503" /\ call.result = "ErrSearchFailed"
\* C31: a completion call that ended on a 5xx status or a network error
\* under a live context has made three retries (four completion requests)
LLMRetriesWithBackoff ==
    (call.client \in LLMClients /\ call.pc = "done" /\ ~call.ctxDone
        /\ call.last \in {"netErr", "500", "503"}) =>
        (call.attempts = 4 /\ call.waits = <<1, 2, 4>>)

\* what one gigachat call does about 401
TokenRetryShape ==
    call.client = "gigachat" =>
        /\ call.attempts <= 2
        /\ call.handled401 <= 1
        /\ call.attempts = 2 => (call.handled401 = 1 /\ call.isRetry)
        /\ call.isRetry => call.handled401 = 1
        /\ (call.pc = "done" /\ call.last = "401" /\ call.attempts = 2) =>
              call.result = "ErrAuthFailed"
        /\ call.refreshes <= 3

SourcesWithinLimit == \A u \in Users : CountByUser(u) <= MaxSourcesPerUser

====
